---- MODULE Spec2Model ----
(***************************************************************************)
(* A model of the proto front end of rust-protobufjs: the namespace trie   *)
(* (namespace.rs), the type-reference resolver (Namespace::normalize_types)*)
(* and the multi-file driver (Parser::parse_file).                         *)
(*                                                                         *)
(* A dotted name is a sequence of segments, as str::split('.') produces    *)
(* it: ".p.N" is <<"", "p", "N">> (the leading dot gives an empty first    *)
(* segment) and "N" is <<"N">>.                                            *)
(***************************************************************************)
EXTENDS Naturals, Sequences, FiniteSets, TLC

VARIABLES
    files,     \* file name -> the Namespace fragment parsed from it (type_name cells are rewritten in place)
    written,   \* file name -> the fragment as the file parser built it (the names as written)
    status,    \* file name -> "parsed" | "resolved" (normalize_types has returned for it)
    disk,          \* path -> what std::fs::read_to_string and FileParser::parse give for it
    ignored_files, \* the ignored_files handed to Parser::new
    parsed_files,  \* Parser.parsed_files
    root,          \* Parser.root, the namespace that append_child acts on
    reads,         \* path -> number of read_to_string calls made for it
    parses,        \* path -> number of FileParser::parse calls made for it
    last,          \* the last top-level parse_file call: its argument, its result, the state it started in
    appended,      \* the children handed to root.append_child so far, in order
    source,        \* the file as it was written: what the text given to the tokenizer was built from
    tokenizer,     \* the Tokenizer
    returned,   \* the results Tokenizer::next has returned so far, in order
    file_parser, \* the FileParser reading the text of source: its tokenizer, its peeked token, its namespace
    lexed,       \* tokenizer state -> what Tokenizer::next gives in it, for every state the file parser's tokenizer can be in
    parsed,      \* what FileParser::parse returned: <<>> while it runs, then the namespace or the error and its position
    relative,    \* a written path and a namespace path, with what relative_to and relative_path_index returned for them
    iterator,    \* an IteratorWithPosition over a text
    before       \* the position iterator had just before the last character it took from the text

resolver_vars == <<files, written, status>>
parser_vars == <<disk, ignored_files, parsed_files, reads, parses, last>>
tokenizer_vars == <<source, tokenizer, returned>>
file_parser_vars == <<file_parser, lexed, parsed>>
relative_vars == <<relative>>
iterator_vars == <<iterator, before>>
vars == <<files, written, status, disk, ignored_files, parsed_files, root,
          reads, parses, last, appended, source, tokenizer, returned,
          file_parser, lexed, parsed, relative, iterator, before>>

(***************************************************************************)
(*                             Data model                                  *)
(***************************************************************************)

\* message.rs / scalar.rs: the scalar type names
SCALARS ==
    {"double", "float", "int32", "int64", "uint32", "uint64", "sint32",
     "sint64", "fixed32", "fixed64", "sfixed32", "sfixed64", "bool",
     "string", "bytes"}

\* an empty HashMap
EmptyMap == [x \in {} |-> {}]

\* Message::new plus add_field: a message with the given name -> type_name fields.
\* The nested types of a message live in the same flat table as the message,
\* under the message's path extended by their name.
Message(fields) == [kind |-> "message", fields |-> fields]

\* Enum::new: an enum has no fields and no nested types
Enum == [kind |-> "enum", fields |-> EmptyMap]

\* Rpc::new
Rpc(request_type, response_type) ==
    [request_type |-> request_type, response_type |-> response_type]

\* Namespace::new plus add_import / add_message / add_enum / add_service:
\* Namespace { path, imports, nested, services, types } with no nested namespace.
\* types is the flat table  type path -> Type : the top-level types of the
\* namespace are the paths of length 1, the nested types of the message at
\* path tp are the paths tp \o <<name>>.
\* nested is the map  key -> Namespace  of the trie.
Namespace(path, imports, types, services) ==
    [path |-> path, imports |-> imports, nested |-> EmptyMap,
     types |-> types, services |-> services]

\* Namespace::empty
empty == Namespace(<<>>, {}, EmptyMap, EmptyMap)

\* Import::Public(path) | Import::Internal(path)
Import(kind, file) == [kind |-> kind, file |-> file]

(***************************************************************************)
(*                         Names and paths                                 *)
(***************************************************************************)

\* Option::None of resolve_path (a Some is never the empty path)
None == <<>>

\* self.to_path().join(".") read back as segments: the empty path joins to
\* the empty string, whose split is one empty segment
JoinPath(path) == IF path = <<>> THEN <<"">> ELSE path

\* IntoPath::to_absolute_path: format!(".{}.{}", path.join("."), type_name)
to_absolute_path(path, type_name) == <<"">> \o JoinPath(path) \o type_name

\* service_map::no_leading_dot
no_leading_dot(s) == IF Len(s) > 0 /\ s[1] = "" THEN Tail(s) ELSE s

\* Iterator::position: the 1-based index of the first element equal to seg, 0 for None
Position(path, seg) ==
    IF \E i \in 1..Len(path) : path[i] = seg
    THEN CHOOSE i \in 1..Len(path) :
            path[i] = seg /\ \A j \in 1..(i - 1) : path[j] # seg
    ELSE 0

\* the while loop of relative_path_index: how many leading pairs of zip(a, b) are equal
MatchingPrefix(a, b) ==
    LET m == IF Len(a) < Len(b) THEN Len(a) ELSE Len(b)
    IN  CHOOSE k \in 0..m :
            /\ \A i \in 1..k : a[i] = b[i]
            /\ (k < m => a[k + 1] # b[k + 1])

\* SubSeq from index i to the end: Iterator::skip(i - 1)
Skip(s, n) == SubSeq(s, n + 1, Len(s))

\* relative_path_index with the namespace's segments zipped from the found
\* segment itself instead of from the one after it
relative_path_index_unskipped(nsPath, object_type) ==
    IF object_type = <<>> THEN 0
    ELSE LET n == Position(nsPath, object_type[1])
         IN  IF n = 0 THEN 0
             ELSE 1 + MatchingPrefix(Skip(nsPath, n - 1), Tail(object_type))

\* Namespace::relative_path_index
relative_path_index(nsPath, object_type) ==
    IF object_type = <<>> THEN 0
    ELSE LET n == Position(nsPath, object_type[1])
         IN  IF n = 0 THEN 0
             ELSE 1 + MatchingPrefix(Skip(nsPath, n), Tail(object_type))

\* Type::get along a whole path: every proper prefix of rel is a message of
\* the table (an enum has no nested type) and rel itself is in the table
TypeAt(types, rel) ==
    /\ rel \in DOMAIN types
    /\ \A i \in 1..(Len(rel) - 1) :
          /\ SubSeq(rel, 1, i) \in DOMAIN types
          /\ types[SubSeq(rel, 1, i)].kind = "message"

\* resolve_path with a leading dot taken as the root marker and dropped
\* before the lookup
resolve_path_dropping_dot(ns, path) ==
    LET undotted == no_leading_dot(path)
        index    == relative_path_index(ns.path, undotted)
        rel      == Skip(undotted, index)
    IN  IF rel = <<>> THEN None
        ELSE IF TypeAt(ns.types, rel) THEN rel ELSE None

\* Namespace::resolve_path: the path relative to the namespace when the
\* namespace holds a type there, None otherwise
resolve_path(ns, path) ==
    LET index == relative_path_index(ns.path, path)
        rel   == Skip(path, index)
    IN  IF rel = <<>> THEN None
        ELSE IF TypeAt(ns.types, rel) THEN rel ELSE None

\* Iterator::any(|segment| segment == first_segment) on dest: whether a
\* segment was found, and dest after the call (any takes the segments up to
\* and including the first one found)
RECURSIVE any(_, _)
any(dest, first_segment) ==
    IF dest = <<>> THEN [found |-> FALSE, dest |-> dest]
    ELSE IF Head(dest) = first_segment THEN [found |-> TRUE, dest |-> Tail(dest)]
    ELSE any(Tail(dest), first_segment)

\* the loop of relative_to: self loses a segment for as long as src and dest
\* give equal segments
RECURSIVE relative_to_loop(_, _, _)
relative_to_loop(self, src, dest) ==
    IF src # <<>> /\ dest # <<>> /\ Head(src) = Head(dest)
    THEN relative_to_loop(Tail(self), Tail(src), Tail(dest))
    ELSE self

\* relative_to losing the first segment only
relative_to_first_only(self, dest) ==
    IF self = <<>> THEN self
    ELSE IF any(dest, Head(self)).found THEN Tail(self) ELSE self

\* IterExt::relative_to: self and dest are the segments the iterators give,
\* the result the segments self gives afterwards
relative_to(self, dest) ==
    IF self = <<>> THEN self
    ELSE LET found == any(dest, Head(self))
         IN  IF found.found
             THEN relative_to_loop(Tail(self), Tail(self), found.dest)
             ELSE self

(***************************************************************************)
(*                    Namespace::normalize_types                           *)
(***************************************************************************)

\* the position of the first dependency that resolves path, 0 when none does
\* (the `for ns in &dependencies` loop leaves at the first hit)
FirstResolving(dependencies, path) ==
    IF \E i \in 1..Len(dependencies) : resolve_path(dependencies[i], path) # None
    THEN CHOOSE i \in 1..Len(dependencies) :
            /\ resolve_path(dependencies[i], path) # None
            /\ \A j \in 1..(i - 1) : resolve_path(dependencies[j], path) = None
    ELSE 0

\* the loop body without the scalar check
NormalizeTypeScalarsLookedUp(self, dependencies, type_name, resolve_local) ==
    LET own == resolve_path(self, type_name)
    IN  IF own # None
        THEN IF resolve_local
             THEN own
             ELSE to_absolute_path(self.path, own)
        ELSE LET i == FirstResolving(dependencies, type_name)
             IN  IF i # 0
                 THEN to_absolute_path(dependencies[i].path,
                                       resolve_path(dependencies[i], type_name))
                 ELSE type_name

\* the body of the 'outer loop of normalize_types for one type_name cell:
\* the value the cell holds when the iteration ends
NormalizeType(self, dependencies, type_name, resolve_local) ==
    IF Len(type_name) = 1 /\ type_name[1] \in SCALARS
    THEN type_name                                   \* skip scalar types
    ELSE LET own == resolve_path(self, type_name)
         IN  IF own # None
             THEN IF resolve_local
                  THEN own
                  ELSE to_absolute_path(self.path, own)
             ELSE LET i == FirstResolving(dependencies, type_name)
                  IN  IF i # 0
                      THEN to_absolute_path(dependencies[i].path,
                                            resolve_path(dependencies[i], type_name))
                      ELSE type_name                 \* miss: the cell is left as it is

\* normalize_types: every rpc request and response type (resolve_local =
\* false) and every field of every message at every nesting depth
\* (messages_iter, resolve_local = true) goes through the loop body
normalize_types(self, dependencies) ==
    [self EXCEPT
        !.services =
            [s \in DOMAIN self.services |->
                [m \in DOMAIN self.services[s] |->
                    Rpc(NormalizeType(self, dependencies,
                                      self.services[s][m].request_type, FALSE),
                        NormalizeType(self, dependencies,
                                      self.services[s][m].response_type, FALSE))]],
        !.types =
            [tp \in DOMAIN self.types |->
                [self.types[tp] EXCEPT
                    !.fields =
                        [f \in DOMAIN self.types[tp].fields |->
                            NormalizeType(self, dependencies,
                                          self.types[tp].fields[f], TRUE)]]]]

(***************************************************************************)
(*            The resolution scope of a file (build_root)                  *)
(***************************************************************************)

Files == {"a.proto", "b.proto", "c.proto"}

\* the files a fragment imports, and those it imports publicly
ImportedBy(ns) == {i.file : i \in ns.imports}
PubliclyImportedBy(ns) == {i.file : i \in {j \in ns.imports : j.kind = "Public"}}

\* S and everything reached from S through at most k public imports
RECURSIVE PublicReach(_, _, _)
PublicReach(fs, S, k) ==
    IF k = 0 THEN S
    ELSE PublicReach(fs, S \cup UNION {PubliclyImportedBy(fs[g]) : g \in S}, k - 1)

\* the visible imported namespaces of file f: its direct imports and the
\* transitively public imports of those
Dependencies(fs, f) == PublicReach(fs, ImportedBy(fs[f]), Cardinality(Files)) \ {f}

\* the orders in which a Vec holds the elements of S
Orders(S) ==
    {o \in [1..Cardinality(S) -> S] :
        \A i, j \in 1..Cardinality(S) : i # j => o[i] # o[j]}

(***************************************************************************)
(*                 The files given to the resolver                         *)
(***************************************************************************)

\* the type names written in c.proto's fields and rpc
WrittenNames ==
    {<<"N">>, <<"p", "N">>, <<"q", "N">>, <<"", "p", "N">>, <<"p", "p">>, <<"M", "N">>}

\* the top-level types of c.proto: message M, which holds a field f of the
\* written type w, optionally a nested type M.N (an enum, or a message holding
\* a field f of type w as well), and optionally one more top-level message
CTypes(w, nested, extra) ==
    (<<"M">> :> Message("f" :> w))
    @@ (CASE nested = "none"    -> EmptyMap
          [] nested = "enum"    -> (<<"M", "N">> :> Enum)
          [] nested = "message" -> (<<"M", "N">> :> Message("f" :> w)))
    @@ (IF extra = "none" THEN EmptyMap ELSE (<<extra>> :> Message(EmptyMap)))

\* c.proto: package p; optionally import "a.proto"; service S { rpc Call(w) returns (M); }
\* with w one of the names W and the extra top-level message one of extras
CFiles(W, extras) ==
    {Namespace(<<"p">>, imports, CTypes(w, nested, extra),
               "S" :> ("Call" :> Rpc(w, <<"M">>))) :
        imports \in {{}, {Import("Internal", "a.proto")}},
        w \in W,
        nested \in {"none", "enum", "message"},
        extra \in extras}

\* a file that declares at most one empty top-level message, named in names
\* ("none": no message), in package p or q, with one of the given import sets
LeafFiles(names, importSets) ==
    {Namespace(<<pkg>>, imports,
               IF t = "none" THEN EmptyMap ELSE (<<t>> :> Message(EmptyMap)),
               EmptyMap) :
        pkg \in {"p", "q"},
        imports \in importSets,
        t \in names}

\* a.proto imports b.proto publicly, internally or not at all
AFiles(names) ==
    LeafFiles(names, {{}, {Import("Internal", "b.proto")}, {Import("Public", "b.proto")}})

\* b.proto imports nothing
BFiles(names) == LeafFiles(names, {{}})

(***************************************************************************)
(*                          The namespace trie                             *)
(***************************************************************************)

\* HashMap::extend on a services map: an entry of other replaces the entry of
\* the same name
extend(map, other) == other @@ map

\* HashMap::extend on a types map: a top-level Type of other replaces the whole
\* Type of the same name, the types nested in it included
extend_types(types, other) ==
    LET replaced == {tp[1] : tp \in DOMAIN other}
        kept == {tp \in DOMAIN types : tp[1] \notin replaced}
    IN  other @@ [tp \in kept |-> types[tp]]

\* the loop and the two extends of append_child: walk the keys of path down
\* from ptr, entering each key with or_insert(Namespace::empty()), and extend
\* the node reached
RECURSIVE append_at(_, _, _, _)
append_at(ptr, path, types, services) ==
    IF path = <<>>
    THEN [ptr EXCEPT !.types = extend_types(@, types),
                     !.services = extend(@, services)]
    ELSE LET key == Head(path)
             entry == IF key \in DOMAIN ptr.nested THEN ptr.nested[key] ELSE empty
         IN  [ptr EXCEPT !.nested =
                 (key :> append_at(entry, Tail(path), types, services)) @@ @]

\* an append_child that enters the whole package under one key, its last segment
append_child_one_level(self, child) ==
    append_at(self, IF child.path = <<>> THEN <<>> ELSE <<child.path[Len(child.path)]>>,
              child.types, child.services)

\* Namespace::append_child: only path, types and services of the child are
\* taken (`..` drops its imports and its nested map)
append_child(self, child) ==
    append_at(self, child.path, child.types, child.services)

\* Namespace::child for the keys of path; the Option is the set of at most one
\* namespace
RECURSIVE child(_, _)
child(self, path) ==
    IF path = <<>> THEN {self}
    ELSE IF Head(path) \in DOMAIN self.nested
         THEN child(self.nested[Head(path)], Tail(path))
         ELSE {}

(***************************************************************************)
(*                The children given to append_child                       *)
(***************************************************************************)

MaxAppends == 3

TriePaths == {<<>>, <<"a">>, <<"a", "b">>, <<"a", "b", "c">>}

\* the declarations of a child: its types and its services
TrieContents ==
    {[types |-> EmptyMap, services |-> EmptyMap],
     [types |-> <<"M">> :> Message("f" :> <<"int32">>),
      services |-> "S" :> ("Call" :> Rpc(<<"M">>, <<"M">>))],
     [types |-> (<<"M">> :> Message("f" :> <<"string">>)) @@ (<<"M", "N">> :> Enum),
      services |-> "S" :> ("Get" :> Rpc(<<"N">>, <<"M">>))],
     [types |-> <<"N">> :> Enum, services |-> EmptyMap],
     [types |-> EmptyMap, services |-> "T" :> ("Call" :> Rpc(<<"M">>, <<"M">>))]}

\* the namespaces a file parser returns: no nested namespace
Fragments ==
    {Namespace(path, {}, c.types, c.services) :
        path \in TriePaths, c \in TrieContents}

\* namespaces that were themselves given a child:
\* Namespace::new(path), then append_child(Namespace::new("n") with declarations)
Grafted ==
    {append_child(Namespace(path, {}, EmptyMap, EmptyMap),
                  Namespace(<<"n">>, {}, c.types, c.services)) :
        path \in {<<"a">>, <<"a", "b">>},
        c \in {d \in TrieContents : d.types # EmptyMap /\ d.services # EmptyMap}}

Children == Fragments \cup Grafted

(***************************************************************************)
(*                       The multi-file driver                             *)
(***************************************************************************)

Paths == Files \cup {"d.proto"}

MaxImports == 2

\* read_to_string fails / FileParser::parse fails / parse returns a namespace
Unreadable == [kind |-> "unreadable"]
Malformed == [kind |-> "malformed"]
Parsed(namespace) == [kind |-> "parsed", namespace |-> namespace]

Package(p) ==
    CASE p = "a.proto" -> <<"p">>
      [] p = "b.proto" -> <<"p">>
      [] p = "c.proto" -> <<"p", "q">>
      [] p = "d.proto" -> <<"q">>

OwnType(p) ==
    CASE p = "a.proto" -> "A"
      [] p = "b.proto" -> "B"
      [] p = "c.proto" -> "C"
      [] p = "d.proto" -> "D"

\* the namespace FileParser::parse returns for file p importing imports:
\* package Package(p); message <OwnType> { string f = 1; }
\* message M { <OwnType> f = 1; }  and, in a.proto, a service
FileNamespace(p, imports) ==
    Namespace(Package(p), {Import("Internal", i) : i \in imports},
              (<<OwnType(p)>> :> Message("f" :> <<"string">>))
                  @@ (<<"M">> :> Message("f" :> <<OwnType(p)>>)),
              IF p = "a.proto"
              THEN "S" :> ("Call" :> Rpc(<<"A">>, <<"M">>))
              ELSE EmptyMap)

\* what the disk may hold under path p; d.proto imports nothing
DiskContents(p) ==
    {Unreadable, Malformed}
    \cup {Parsed(FileNamespace(p, imports)) :
            imports \in IF p = "d.proto" THEN {{}}
                        ELSE {S \in SUBSET (Paths \ {p}) : Cardinality(S) <= MaxImports}}

IgnoredSets == {{}, {"d.proto"}, {"b.proto"}}

\* a Parser::new that drops the ignored files
new_without_ignored(ignored) == [root |-> empty, parsed_files |-> {}]

\* Parser::new
new(ignored) == [root |-> empty, parsed_files |-> ignored]

\* an insert that forgets the file
insert_nothing(set, file_name) == set

\* parsed_files.insert(file_name)
insert(set, file_name) == set \cup {file_name}

\* the call stack holds at most one parse_file frame per path that is not yet
\* in parsed_files, and one more for the call that returns at once
MaxDepth == Cardinality(Paths) + 1

\* Parser::parse_file(file_name) started in the state self = [root,
\* parsed_files, reads, parses, result]: the set of states it can return in,
\* one for each order in which the HashSet of imports is iterated.  result is
\* "Ok", "Read" (ParseFileError::Read) or "ParseError"; "Overflow" is the
\* stack running out.
RECURSIVE parse_file(_, _, _)
RECURSIVE parse_imports(_, _, _)
parse_file(self, file_name, depth) ==
    IF depth = 0 THEN {[self EXCEPT !.result = "Overflow"]}
    ELSE IF file_name \in self.parsed_files THEN {[self EXCEPT !.result = "Ok"]}
    ELSE
        LET seen == [self EXCEPT !.parsed_files = insert(@, file_name),
                                 !.reads[file_name] = @ + 1]
        IN  IF disk[file_name].kind = "unreadable"
            THEN {[seen EXCEPT !.result = "Read"]}
            ELSE
                LET tried == [seen EXCEPT !.parses[file_name] = @ + 1]
                IN  IF disk[file_name].kind = "malformed"
                    THEN {[tried EXCEPT !.result = "ParseError"]}
                    ELSE
                        LET namespace == disk[file_name].namespace
                        IN  {IF o.result = "Ok"
                             THEN [o EXCEPT !.root = append_child(@, namespace)]
                             ELSE o :
                                o \in parse_imports(tried, ImportedBy(namespace), depth - 1)}

\* the loop over namespace.imports: each import in turn, `?` leaving at the
\* first failure
parse_imports(self, imports, depth) ==
    IF imports = {} THEN {[self EXCEPT !.result = "Ok"]}
    ELSE UNION {
            UNION {IF o.result = "Ok"
                   THEN parse_imports(o, imports \ {file}, depth)
                   ELSE {o} :
                      o \in parse_file(self, file, depth)} :
            file \in imports}

NoReads == [p \in Paths |-> 0]

NoCall ==
    [file_name |-> "", result |-> "Ok", root |-> empty, parsed_files |-> {},
     reads |-> NoReads]

\* nothing was appended and no parser runs
TrieIdle == appended = <<>>
ParserIdle ==
    /\ disk = [p \in Paths |-> Unreadable]
    /\ ignored_files = {}
    /\ parsed_files = new(ignored_files).parsed_files
    /\ reads = NoReads
    /\ parses = NoReads
    /\ last = NoCall
ResolverIdle ==
    /\ files = [f \in Files |-> empty]
    /\ written = files
    /\ status = [f \in Files |-> "parsed"]

(***************************************************************************)
(*              Characters with their position (position.rs,               *)
(*                    iterator_with_position.rs)                           *)
(***************************************************************************)

\* A text is a sequence of characters, each a string of length one.
\* An Option is the sequence of at most one value: <<>> is None, <<v>> is Some(v).

\* Position::default
PositionDefault == [line |-> 1, column |-> 1, offset |-> 0]

\* Position::add_line, remove_line, add_column, remove_column
add_line(p) == [line |-> p.line + 1, column |-> 1, offset |-> p.offset + 1]
remove_line(p) == [line |-> p.line - 1, column |-> 1, offset |-> p.offset - 1]
add_column(p) == [line |-> p.line, column |-> p.column + 1, offset |-> p.offset + 1]
remove_column(p) == [line |-> p.line, column |-> p.column - 1, offset |-> p.offset - 1]

\* IteratorWithPosition::new over the characters of text; taken is the number
\* of characters the underlying iterator has given
IteratorWithPosition(text) ==
    [text |-> text, taken |-> 0, position |-> PositionDefault, peeked |-> <<>>]

\* Iterator::next of IteratorWithPosition: the item (an Option<char>) and the
\* iterator after the call
chars_next(it) ==
    IF it.peeked # <<>>
    THEN [item |-> it.peeked[1], it |-> [it EXCEPT !.peeked = <<>>]]
    ELSE IF it.taken = Len(it.text)
    THEN [item |-> <<>>, it |-> it]
    ELSE LET c == it.text[it.taken + 1]
         IN  [item |-> <<c>>,
              it |-> [it EXCEPT !.taken = @ + 1,
                                !.position = IF c = "\n" THEN add_line(@)
                                                         ELSE add_column(@)]]

Letters ==
    {"a", "b", "c", "d", "e", "f", "g", "h", "i", "j", "k", "l", "m", "n", "o",
     "p", "q", "r", "s", "t", "u", "v", "w", "x", "y", "z",
     "A", "B", "C", "D", "E", "F", "G", "H", "I", "J", "K", "L", "M", "N", "O",
     "P", "Q", "R", "S", "T", "U", "V", "W", "X", "Y", "Z"}
Digits == {"0", "1", "2", "3", "4", "5", "6", "7", "8", "9"}

\* matches!(c, 'a'..='z' | 'A'..='Z' | '0'..='9' | '.' | '_')
IsWordChar(c) == c \in Letters \cup Digits \cup {".", "_"}

\* |c| *c != '\n'
NotNewLine(c) == c # "\n"

\* the closures the tokenizer hands to next_if, called on a character
call(func, c) ==
    CASE func = "is_word_char" -> IsWordChar(c)
      [] func = "is_not_new_line" -> NotNewLine(c)

\* IteratorWithPosition::next_if
next_if(it, func) ==
    LET r == chars_next(it)
    IN  IF r.item # <<>> /\ call(func, r.item[1])
        THEN r
        ELSE [item |-> <<>>, it |-> [r.it EXCEPT !.peeked = <<r.item>>]]

\* IteratorWithPosition::current_position
current_position(it) ==
    IF it.peeked # <<>> /\ it.peeked[1] # <<>>
    THEN IF it.peeked[1][1] = "\n" THEN remove_line(it.position)
                                   ELSE remove_column(it.position)
    ELSE it.position

\* IteratorWithPosition::current_line
current_line(it) ==
    IF it.peeked = <<(<<"\n">>)>> THEN it.position.line - 1 ELSE it.position.line

(***************************************************************************)
(*                       The tokenizer (tokenizer.rs)                      *)
(***************************************************************************)

\* Tokenizer::new
Tokenizer(text) == [chars |-> IteratorWithPosition(text), comment |-> <<>>]

\* Comment::star_slash, Comment::double_slash
star_slash(text, start_line, end_line) ==
    [kind |-> "StarSlash", text |-> text, start_line |-> start_line, end_line |-> end_line]
double_slash(text, start_line, end_line) ==
    [kind |-> "DoubleSlash", text |-> text, start_line |-> start_line, end_line |-> end_line]

\* a Token: its variant and, for Identifier, String and FieldRule, its text
Token(kind) == [kind |-> kind, text |-> <<>>]
TokenWith(kind, text) == [kind |-> kind, text |-> text]

\* Result::Ok and Result::Err of the tokenizer's functions, with the tokenizer
\* state they leave
Ok(value, chars) == [ok |-> TRUE, value |-> value, chars |-> chars]
Err(error, chars) == [ok |-> FALSE, value |-> error, chars |-> chars]

\* the characters the escapes n, r, t, \, " and ' stand for
Escapes ==
    ("n" :> "\n") @@ ("r" :> "\r") @@ ("t" :> "\t") @@ ("\\" :> "\\")
    @@ ("\"" :> "\"") @@ ("'" :> "'")

\* the `for char in &mut self.chars` loop of read_delimited_string
RECURSIVE read_delimited_loop(_, _, _, _)
read_delimited_loop(chars, vec, found_escape_char, end_delimiter) ==
    LET r == chars_next(chars)
    IN  IF r.item = <<>>
        THEN Err([kind |-> "MissingEndDelimiter"], r.it)
        ELSE LET c == r.item[1]
             IN  IF found_escape_char
                 THEN IF c \in DOMAIN Escapes
                      THEN read_delimited_loop(r.it, Append(vec, Escapes[c]), FALSE,
                                               end_delimiter)
                      ELSE read_delimited_loop(r.it, vec \o <<"\\", c>>, FALSE,
                                               end_delimiter)
                 ELSE IF c = "\\"
                 THEN read_delimited_loop(r.it, Append(vec, "\\"), TRUE, end_delimiter)
                 ELSE IF c = end_delimiter
                 THEN Ok(vec, r.it)
                 ELSE read_delimited_loop(r.it, Append(vec, c), FALSE, end_delimiter)

\* Tokenizer::read_delimited_string
read_delimited_string(chars, end_delimiter) ==
    read_delimited_loop(chars, <<>>, FALSE, end_delimiter)

\* the words that are keywords, each with its Token variant
Keywords ==
    {<<<<"i", "m", "p", "o", "r", "t">>, "Import">>,
     <<<<"p", "u", "b", "l", "i", "c">>, "Public">>,
     <<<<"p", "a", "c", "k", "a", "g", "e">>, "Package">>,
     <<<<"r", "e", "s", "e", "r", "v", "e", "d">>, "Reserved">>,
     <<<<"o", "p", "t", "i", "o", "n">>, "Option">>,
     <<<<"s", "e", "r", "v", "i", "c", "e">>, "Service">>,
     <<<<"r", "e", "t", "u", "r", "n", "s">>, "Returns">>,
     <<<<"r", "p", "c">>, "Rpc">>,
     <<<<"s", "t", "r", "e", "a", "m">>, "Stream">>,
     <<<<"e", "x", "t", "e", "n", "s", "i", "o", "n", "s">>, "Extensions">>,
     <<<<"r", "e", "p", "e", "a", "t", "e", "d">>, "FieldRule">>,
     <<<<"o", "p", "t", "i", "o", "n", "a", "l">>, "FieldRule">>,
     <<<<"r", "e", "q", "u", "i", "r", "e", "d">>, "FieldRule">>,
     <<<<"m", "a", "p">>, "Map">>,
     <<<<"m", "e", "s", "s", "a", "g", "e">>, "Message">>,
     <<<<"e", "x", "t", "e", "n", "d">>, "Extend">>,
     <<<<"s", "y", "n", "t", "a", "x">>, "Syntax">>,
     <<<<"o", "n", "e", "o", "f">>, "Oneof">>,
     <<<<"e", "n", "u", "m">>, "Enum">>}

\* the `while let Some(char) = self.chars.next_if(..)` loop of read_identifier
RECURSIVE read_word(_, _)
read_word(chars, vec) ==
    LET r == next_if(chars, "is_word_char")
    IN  IF r.item = <<>> THEN [word |-> vec, chars |-> r.it]
        ELSE read_word(r.it, Append(vec, r.item[1]))

\* Tokenizer::read_identifier
read_identifier(chars, start) ==
    LET r == read_word(chars, <<start>>)
        variants == {k[2] : k \in {j \in Keywords : j[1] = r.word}}
    IN  IF variants = {}
        THEN Ok(TokenWith("Identifier", r.word), r.chars)
        ELSE Ok(TokenWith(CHOOSE v \in variants : TRUE, r.word), r.chars)

\* the `while let Some(current_char) = self.chars.next()` loop of a /* comment
RECURSIVE read_star_loop(_, _, _, _, _)
read_star_loop(chars, previous_char, comment, last_insert_is_line, start_line) ==
    LET r == chars_next(chars)
    IN  IF r.item = <<>>
        THEN Ok(star_slash(comment, start_line, current_line(r.it)), r.it)
        ELSE LET current_char == r.item[1]
             IN  IF previous_char = "*" /\ current_char = "/"
                 THEN Ok(star_slash(comment, start_line, current_line(r.it)), r.it)
                 ELSE IF previous_char = "\r"
                 THEN read_star_loop(r.it, current_char, comment,
                                     last_insert_is_line, start_line)
                 ELSE IF previous_char = "\n" /\ current_char \in {" ", "\t"}
                 THEN read_star_loop(r.it, previous_char, comment,
                                     last_insert_is_line, start_line)
                 ELSE IF last_insert_is_line /\ previous_char = "*"
                 THEN read_star_loop(r.it, current_char, comment,
                                     last_insert_is_line, start_line)
                 ELSE IF previous_char = "\n"
                 THEN read_star_loop(r.it, current_char, Append(comment, previous_char),
                                     TRUE, start_line)
                 ELSE read_star_loop(r.it, current_char, Append(comment, previous_char),
                                     last_insert_is_line, start_line)

\* the `while let Some(c) = self.chars.next_if(|c| *c != '\n')` loop of a // comment
RECURSIVE read_slash_loop(_, _, _)
read_slash_loop(chars, comment, stripped_first_slash) ==
    LET r == next_if(chars, "is_not_new_line")
    IN  IF r.item = <<>> THEN [comment |-> comment, chars |-> r.it]
        ELSE read_slash_loop(r.it,
                             IF stripped_first_slash \/ r.item[1] # "/"
                             THEN Append(comment, r.item[1]) ELSE comment,
                             TRUE)

\* a double_slash that never joins the comment before it
double_slash_alone(pending, comment, start_line) ==
    double_slash(comment, start_line, start_line)

\* the `match self.comment.take()` of read_comment: the comment is joined to the
\* pending double slash comment that ends on the line before
double_slash_joined(pending, comment, start_line) ==
    IF /\ pending # <<>>
       /\ pending[1].kind = "DoubleSlash"
       /\ pending[1].end_line + 1 = start_line
    THEN double_slash(pending[1].text \o <<"\n">> \o comment,
                      pending[1].start_line, start_line)
    ELSE double_slash(comment, start_line, start_line)

\* Tokenizer::read_comment, self being [chars, comment]: value is the Comment
\* (self.comment is taken by a // comment)
read_comment(self) ==
    LET first == chars_next(self.chars)
    IN  IF first.item = <<>> THEN Err([kind |-> "EOF"], first.it)
        ELSE
        LET start_line == current_line(first.it)
        IN  CASE first.item[1] = "*" ->
                   LET second == chars_next(first.it)
                   IN  IF second.item = <<>> THEN Err([kind |-> "EOF"], second.it)
                       ELSE IF second.item[1] # "*"
                       THEN read_star_loop(second.it, second.item[1], <<>>, FALSE,
                                           start_line)
                       ELSE LET third == chars_next(second.it)
                            IN  IF third.item = <<>>
                                THEN Err([kind |-> "EOF"], third.it)
                                ELSE read_star_loop(third.it, third.item[1], <<>>,
                                                    FALSE, start_line)
               [] first.item[1] = "/" ->
                   LET r == read_slash_loop(first.it, <<>>, FALSE)
                   IN  Ok(double_slash_joined(self.comment, r.comment, start_line),
                          r.chars)
               [] OTHER ->
                   Err([kind |-> "UnexpectedChar", char |-> first.item[1]], first.it)

\* the punctuation characters, each with its Token variant
Punctuation ==
    ("=" :> "Eq") @@ (";" :> "Semi") @@ (":" :> "Colon") @@ ("{" :> "LBrace")
    @@ ("}" :> "RBrace") @@ ("(" :> "LParen") @@ (")" :> "RParen")
    @@ ("[" :> "LBrack") @@ ("]" :> "RBrack") @@ ("<" :> "LAngle")
    @@ (">" :> "Rangle") @@ ("," :> "Comma")

\* Tokenizer::next, self being [chars, comment]: the Result<Token, TokenError>
\* and the tokenizer after the call
RECURSIVE next(_)
next(self) ==
    LET r == chars_next(self.chars)
        after == [self EXCEPT !.chars = r.it]
    IN  IF r.item = <<>> THEN [result |-> Ok(Token("EOF"), r.it), self |-> after]
        ELSE
        LET c == r.item[1]
        IN  CASE c \in DOMAIN Punctuation ->
                   [result |-> Ok(Token(Punctuation[c]), r.it), self |-> after]
              [] c \in {" ", "\t", "\r", "\n"} -> next(after)
              [] c = "/" ->
                   LET cmt == read_comment(after)
                   IN  IF cmt.ok
                       THEN next([chars |-> cmt.chars, comment |-> <<cmt.value>>])
                       ELSE [result |-> cmt,
                             self |-> [after EXCEPT !.chars = cmt.chars]]
              [] c \in {"'", "\""} ->
                   LET s == read_delimited_string(r.it, c)
                   IN  [result |-> IF s.ok
                                   THEN Ok(TokenWith("String", s.value), s.chars)
                                   ELSE s,
                        self |-> [after EXCEPT !.chars = s.chars]]
              [] OTHER ->
                   LET w == read_identifier(r.it, c)
                   IN  [result |-> w, self |-> [after EXCEPT !.chars = w.chars]]

\* Tokenizer::next written down for a tokenizer and every tokenizer that
\* calls of next() and of comment.take() lead to from it: answers is what is
\* written so far, frontier the tokenizers reached and not yet written
RECURSIVE LexedFrom(_, _)
LexedFrom(answers, frontier) ==
    IF frontier = {} THEN answers
    ELSE LET given == [t \in frontier |-> next(t)]
             all == given @@ answers
             reached == frontier \cup {given[t].self : t \in frontier}
             taken == {[t EXCEPT !.comment = <<>>] : t \in reached}
         IN  LexedFrom(all, (reached \cup taken) \ DOMAIN all)

Lexed(tokenizer0) == LexedFrom(<<>>, {tokenizer0})

(***************************************************************************)
(*                   The texts given to the tokenizer                      *)
(***************************************************************************)

MaxLen == 3

\* the sequences of at most n elements of S
RECURSIVE UpTo(_, _)
UpTo(S, n) ==
    IF n = 0 THEN {<<>>}
    ELSE LET shorter == UpTo(S, n - 1)
         IN  shorter \cup {Append(s, x) : s \in shorter, x \in S}

\* a quoted string literal: a delimiter, at most MaxLen characters, mostly
\* those that matter after a backslash, and the delimiter again
StringChars == {"n", "r", "t", "\\", "\"", "'", "a"}
StringSources ==
    {[kind |-> "string", delimiter |-> d, content |-> c] :
        d \in {"\"", "'"}, c \in UpTo(StringChars, MaxLen)}

MaxLines == 4

\* a line of a file: some code (maybe none) and maybe a // comment after it
Lines ==
    {[code |-> code, comment |-> comment] :
        code \in {<<>>, <<"x">>, <<" ">>},
        comment \in {<<>>, << <<"a">> >>, << <<"/", "b">> >>}}
LineSources ==
    {[kind |-> "lines", lines |-> ls] : ls \in UpTo(Lines, MaxLines) \ {<<>>}}

\* the characters of a line
LineText(line) ==
    line.code \o (IF line.comment = <<>> THEN <<>> ELSE <<"/", "/">> \o line.comment[1])

\* the lines joined by new lines
RECURSIVE JoinLines(_)
JoinLines(ls) ==
    IF Len(ls) = 1 THEN LineText(ls[1])
    ELSE LineText(ls[1]) \o <<"\n">> \o JoinLines(Tail(ls))

MaxBlock == 3

\* a block comment and a word after it: the opening, at most MaxBlock
\* characters, the closing, and x
BlockSources ==
    {[kind |-> "block", body |-> b] : b \in UpTo({"*", "/", "a", "\n"}, MaxBlock)}

\* the text of a source
TextOf(src) ==
    CASE src.kind = "string" -> <<src.delimiter>> \o src.content \o <<src.delimiter>>
      [] src.kind = "lines"  -> JoinLines(src.lines)
      [] src.kind = "block"  -> <<"/", "*">> \o src.body \o <<"*", "/", "x">>
      [] OTHER -> <<>>

NoSource == [kind |-> "none"]

TokenizerIdle ==
    /\ source = NoSource
    /\ tokenizer = Tokenizer(TextOf(source))
    /\ returned = <<>>

(***************************************************************************)
(*                    The file parser (file_parser.rs)                     *)
(***************************************************************************)

\* A name (of a package segment, a type, a field, ...) is the sequence of the
\* characters of the word that was read.

\* Metadata::new: the comment is an Option<Comment>
Metadata_new(comment, line) == [options |-> <<>>, comment |-> comment, line |-> line]

\* Message::new, Enum::new, Oneof::new, Service::new, Field::new, Rpc::new as
\* the file parser calls them
Message_new(md) ==
    [kind |-> "message", fields |-> EmptyMap, oneofs |-> EmptyMap,
     nested |-> EmptyMap, md |-> md]
Enum_new(md) == [kind |-> "enum", values |-> EmptyMap, md |-> md]
Oneof_new(md) == [values |-> <<>>, md |-> md]
Service_new(md) == [methods |-> EmptyMap, md |-> md]
Field_new(id, type_name, rule, key_type, md) ==
    [id |-> id, type_name |-> type_name, rule |-> rule, key_type |-> key_type,
     md |-> md]
Rpc_new(request_type, request_stream, response_type, response_stream, md) ==
    [request_type |-> request_type, request_stream |-> request_stream,
     response_type |-> response_type, response_stream |-> response_stream,
     md |-> md]

\* HashMap::insert: the value replaces the one the key had
map_insert(map, key, value) == (key :> value) @@ map

\* FileParser::new: the namespace starts as Namespace::default().  seen and
\* overtaken are history, not fields of the code: seen is the results of
\* tokenizer.next() that the parser's functions were handed, in the order they
\* were handed, and overtaken is whether the tokenizer was ever read past a
\* peeked token
FileParser(text) ==
    [tokenizer |-> Tokenizer(text), peeked |-> <<>>, namespace |-> empty,
     seen |-> <<>>, overtaken |-> FALSE]

\* Result::Ok and Result::Err of the file parser's functions, with the file
\* parser they leave
POk(value, fp) == [ok |-> TRUE, value |-> value, fp |-> fp]
PErr(error, fp) == [ok |-> FALSE, value |-> error, fp |-> fp]

\* From<TokenError> for ParseError
TokenError(error) == [kind |-> "TokenError", error |-> error]

\* ParseError::UnexpectedToken
UnexpectedToken(found, expected) ==
    [kind |-> "UnexpectedToken", found |-> found, expected |-> expected]

\* Token == Token: the variants with a payload compare their payload too
TokenEq(a, b) ==
    /\ a.kind = b.kind
    /\ a.kind \in {"Identifier", "String"} => a.text = b.text

\* `let x = v;` followed by the rest of the function, K: v is evaluated once
\* and K runs on its value
With(v, K(_)) == CHOOSE out \in {K(x) : x \in {v}} : TRUE

\* the `?` after a call: the call r is evaluated once, the rest of the
\* function, K, runs on an Ok, and an Err is returned as it is
Then(r, K(_)) == CHOOSE out \in {IF x.ok THEN K(x) ELSE x : x \in {r}} : TRUE

\* a Result<Token, TokenError> followed by `?`: the token, or the TokenError
\* as a ParseError
token_or_error(result, fp) ==
    IF result.ok THEN POk(result.value, fp) ELSE PErr(TokenError(result.value), fp)

\* the history of the file parser after its code was handed a result of
\* tokenizer.next()
handed(fp, result) ==
    [fp EXCEPT !.seen = Append(@, [ok |-> result.ok, value |-> result.value])]

\* FileParser::next with `self.peeked.take()` left out: the tokenizer is read
\* whether a token is peeked or not
fp_next_from_tokenizer(fp) ==
    With(lexed[fp.tokenizer],
         LAMBDA r : token_or_error(r.result,
                                   handed([fp EXCEPT !.tokenizer = r.self], r.result)))

\* FileParser::next followed by `?`; what self.tokenizer.next() gives is read
\* from lexed, where it is written for every state of the tokenizer
fp_next(fp) ==
    IF fp.peeked # <<>>
    THEN token_or_error(fp.peeked[1],
                        handed([fp EXCEPT !.peeked = <<>>], fp.peeked[1]))
    ELSE With(lexed[fp.tokenizer],
              LAMBDA r : token_or_error(r.result,
                                        handed([fp EXCEPT !.tokenizer = r.self],
                                               r.result)))

\* Token::identifier: an Identifier gives its word, a keyword the word it was
\* read from, any other token is an error
identifier(token) ==
    IF token.kind = "Identifier" \/ token.kind \in {k[2] : k \in Keywords}
    THEN [ok |-> TRUE, value |-> token.text]
    ELSE [ok |-> FALSE, value |-> [kind |-> "IllegalToken", found |-> token]]

\* Token::into_quoted_string
into_quoted_string(token) ==
    IF token.kind = "String"
    THEN [ok |-> TRUE, value |-> token.text]
    ELSE [ok |-> FALSE, value |-> [kind |-> "UnexpectedString", found |-> token]]

\* a Result<String, ParseError> of a token followed by `?`
string_or_error(result, fp) ==
    IF result.ok THEN POk(result.value, fp) ELSE PErr(result.value, fp)

\* FileParser::read_identifier
fp_read_identifier(fp) ==
    Then(fp_next(fp), LAMBDA t : string_or_error(identifier(t.value), t.fp))

\* FileParser::read_quoted_string
read_quoted_string(fp) ==
    Then(fp_next(fp), LAMBDA t :
        IF t.value.kind = "String" THEN POk(t.value.text, t.fp)
        ELSE PErr([kind |-> "UnexpectedString", found |-> t.value], t.fp))

\* FileParser::expect_token
expect_token(fp, expected) ==
    Then(fp_next(fp), LAMBDA t :
        IF TokenEq(t.value, expected) THEN POk(<<>>, t.fp)
        ELSE PErr(UnexpectedToken(t.value, <<expected>>), t.fp))

\* Tokenizer::skip_until_token, called on the file parser's tokenizer (the
\* peeked token of the file parser is not looked at).  At the end of the text
\* next() returns EOF again and again: the loop never ends unless EOF is the
\* token looked for.
RECURSIVE skip_until_token(_, _)
skip_until_token(fp, token) ==
    With(lexed[fp.tokenizer], LAMBDA r :
        With(handed([fp EXCEPT !.tokenizer = r.self,
                               !.overtaken = @ \/ fp.peeked # <<>>],
                    r.result), LAMBDA after :
            IF ~r.result.ok THEN PErr(TokenError(r.result.value), after)
            ELSE IF TokenEq(r.result.value, token) THEN POk(<<>>, after)
            ELSE IF r.result.value.kind = "EOF"
            THEN PErr([kind |-> "NeverReturns"], after)
            ELSE skip_until_token(after, token)))

\* the second half of FileParser::metadata: r is what tokenizer.next() gave,
\* which is kept as the peeked token, and the comment the tokenizer holds after
\* it is taken when it starts on the line
metadata_trailing(fp, r, line) ==
    IF r.self.comment # <<>> /\ r.self.comment[1].start_line = line
    THEN [md |-> Metadata_new(r.self.comment, line),
          fp |-> [tokenizer |-> [r.self EXCEPT !.comment = <<>>],
                  peeked |-> << [ok |-> r.result.ok, value |-> r.result.value] >>,
                  namespace |-> fp.namespace, seen |-> fp.seen,
                  overtaken |-> fp.overtaken]]
    ELSE [md |-> Metadata_new(<<>>, line),
          fp |-> [tokenizer |-> r.self,
                  peeked |-> << [ok |-> r.result.ok, value |-> r.result.value] >>,
                  namespace |-> fp.namespace, seen |-> fp.seen,
                  overtaken |-> fp.overtaken]]

\* FileParser::metadata: the Metadata and the file parser after the call.
\* `assert!(self.peeked.is_none())` panics when a token is peeked already:
\* the panic is the outcome AssertionFailed, which ends the parse.
metadata(fp) ==
    LET comment == fp.tokenizer.comment
        line == current_line(fp.tokenizer.chars)
    IN  IF fp.peeked # <<>>
        THEN PErr([kind |-> "AssertionFailed"],
                  [fp EXCEPT !.tokenizer.comment = <<>>])
        ELSE IF comment # <<>> /\ comment[1].end_line + 1 = line
        THEN [ok |-> TRUE, md |-> Metadata_new(comment, line),
              fp |-> [fp EXCEPT !.tokenizer.comment = <<>>]]
        ELSE With(lexed[[fp.tokenizer EXCEPT !.comment = <<>>]],
                  LAMBDA r : [ok |-> TRUE] @@ metadata_trailing(fp, r, line))

\* the words between the dots of a word: str::split('.')
RECURSIVE split(_, _)
split(word, current) ==
    IF word = <<>> THEN <<current>>
    ELSE IF Head(word) = "." THEN <<current>> \o split(Tail(word), <<>>)
    ELSE split(Tail(word), Append(current, Head(word)))

\* IntoPath::into_path
into_path(word) == split(word, <<>>)

\* a parse_package that sets the path whatever it was
parse_package_overwriting(fp) ==
    Then(fp_read_identifier(fp), LAMBDA name :
        expect_token([name.fp EXCEPT !.namespace.path = into_path(name.value)],
                     Token("Semi")))

\* FileParser::parse_package
parse_package(fp) ==
    IF fp.namespace.path # <<>> THEN PErr([kind |-> "PackageAlreadySet"], fp)
    ELSE Then(fp_read_identifier(fp), LAMBDA name :
            expect_token([name.fp EXCEPT !.namespace.path = into_path(name.value)],
                         Token("Semi")))

\* the end of FileParser::parse_import: s is the token of the path
import_path(s, kind) ==
    Then(string_or_error(into_quoted_string(s.value), s.fp), LAMBDA q :
        expect_token([q.fp EXCEPT !.namespace.imports = @ \cup {Import(kind, q.value)}],
                     Token("Semi")))

\* FileParser::parse_import
parse_import(fp) ==
    Then(fp_next(fp), LAMBDA t :
        IF t.value.kind = "Public"
        THEN Then(fp_next(t.fp), LAMBDA s : import_path(s, "Public"))
        ELSE import_path(t, "Internal"))

\* FileParser::parse_syntax
parse_syntax(fp) ==
    Then(expect_token(fp, Token("Eq")), LAMBDA eq :
    Then(read_quoted_string(eq.fp), LAMBDA version :
    Then(expect_token(version.fp, Token("Semi")), LAMBDA semi :
        POk(version.value, semi.fp))))

\* FileParser::parse_option: the identifiers and strings up to the next `;`
RECURSIVE parse_option_loop(_, _)
parse_option_loop(fp, values) ==
    Then(fp_next(fp), LAMBDA t :
        CASE t.value.kind = "Semi" -> POk(values, t.fp)
          [] t.value.kind = "EOF" -> PErr([kind |-> "EOF"], t.fp)
          [] t.value.kind \in {"Identifier", "String"} ->
                parse_option_loop(t.fp, Append(values, t.value.text))
          [] OTHER -> parse_option_loop(t.fp, values))

parse_option(fp) == parse_option_loop(fp, <<>>)

\* FileParser::parse_reserved, FileParser::parse_extensions
parse_reserved(fp) == skip_until_token(fp, Token("Semi"))
parse_extensions(fp) == skip_until_token(fp, Token("Semi"))

(***************************************************************************)
(*                  Numbers read from words (std parse)                    *)
(***************************************************************************)

\* char::to_digit(16)
DigitValue ==
    ("0" :> 0) @@ ("1" :> 1) @@ ("2" :> 2) @@ ("3" :> 3) @@ ("4" :> 4)
    @@ ("5" :> 5) @@ ("6" :> 6) @@ ("7" :> 7) @@ ("8" :> 8) @@ ("9" :> 9)
    @@ ("a" :> 10) @@ ("b" :> 11) @@ ("c" :> 12) @@ ("d" :> 13) @@ ("e" :> 14)
    @@ ("f" :> 15) @@ ("A" :> 10) @@ ("B" :> 11) @@ ("C" :> 12) @@ ("D" :> 13)
    @@ ("E" :> 14) @@ ("F" :> 15)

\* the digits of a numeral are digits of the radix
IsNumeral(digits, radix) ==
    /\ digits # <<>>
    /\ \A i \in 1..Len(digits) :
          digits[i] \in DOMAIN DigitValue /\ DigitValue[digits[i]] < radix

\* a numeral without its leading zeros (zero is the empty numeral)
RECURSIVE StripZeros(_)
StripZeros(digits) ==
    IF digits # <<>> /\ Head(digits) = "0" THEN StripZeros(Tail(digits)) ELSE digits

\* a <= b for two numerals without leading zeros
RECURSIVE NumeralLeq(_, _)
NumeralLeq(a, b) ==
    IF Len(a) # Len(b) THEN Len(a) < Len(b)
    ELSE IF a = <<>> THEN TRUE
    ELSE IF DigitValue[Head(a)] # DigitValue[Head(b)]
         THEN DigitValue[Head(a)] < DigitValue[Head(b)]
    ELSE NumeralLeq(Tail(a), Tail(b))

\* u32::MAX in decimal, i32::MAX and -i32::MIN in decimal and hexadecimal
U32Max == <<"4", "2", "9", "4", "9", "6", "7", "2", "9", "5">>
I32Max(radix) ==
    IF radix = 10 THEN <<"2", "1", "4", "7", "4", "8", "3", "6", "4", "7">>
    ELSE <<"7", "f", "f", "f", "f", "f", "f", "f">>
I32MinMagnitude(radix) ==
    IF radix = 10 THEN <<"2", "1", "4", "7", "4", "8", "3", "6", "4", "8">>
    ELSE <<"8", "0", "0", "0", "0", "0", "0", "0">>

\* str::parse::<u32>: an optional +, then decimal digits, at most u32::MAX.
\* The u32 is kept as its decimal numeral without leading zeros.
parse_u32(word) ==
    LET digits == IF word # <<>> /\ Head(word) = "+" THEN Tail(word) ELSE word
    IN  IF word = <<>> THEN [ok |-> FALSE, value |-> "Empty"]
        ELSE IF ~IsNumeral(digits, 10) THEN [ok |-> FALSE, value |-> "InvalidDigit"]
        ELSE IF ~NumeralLeq(StripZeros(digits), U32Max)
             THEN [ok |-> FALSE, value |-> "PosOverflow"]
        ELSE [ok |-> TRUE, value |-> StripZeros(digits)]

\* the i32 of a numeral in range, accumulated the way from_str_radix does
RECURSIVE Accumulate(_, _, _, _)
Accumulate(digits, radix, positive, result) ==
    IF digits = <<>> THEN result
    ELSE Accumulate(Tail(digits), radix, positive,
                    IF positive THEN result * radix + DigitValue[Head(digits)]
                    ELSE result * radix - DigitValue[Head(digits)])

\* i32::from_str_radix: an optional sign, then digits of the radix, within
\* i32::MIN..=i32::MAX
from_str_radix(src, radix) ==
    LET signed == src # <<>> /\ Head(src) \in {"+", "-"}
        positive == ~(src # <<>> /\ Head(src) = "-")
        digits == IF signed THEN Tail(src) ELSE src
        magnitude == StripZeros(digits)
    IN  IF src = <<>> THEN [ok |-> FALSE, value |-> "Empty"]
        ELSE IF ~IsNumeral(digits, radix) THEN [ok |-> FALSE, value |-> "InvalidDigit"]
        ELSE IF positive /\ ~NumeralLeq(magnitude, I32Max(radix))
             THEN [ok |-> FALSE, value |-> "PosOverflow"]
        ELSE IF ~positive /\ ~NumeralLeq(magnitude, I32MinMagnitude(radix))
             THEN [ok |-> FALSE, value |-> "NegOverflow"]
        ELSE [ok |-> TRUE, value |-> Accumulate(magnitude, radix, positive, 0)]

\* a trim that removes the prefix 0x once
strip_prefix_0x(word) ==
    IF Len(word) >= 2 /\ word[1] = "0" /\ word[2] = "x"
    THEN SubSeq(word, 3, Len(word)) ELSE word

\* str::trim_start_matches("0x"): the prefix is removed as long as it is there
RECURSIVE trim_start_matches_0x(_)
trim_start_matches_0x(word) ==
    IF Len(word) >= 2 /\ word[1] = "0" /\ word[2] = "x"
    THEN trim_start_matches_0x(SubSeq(word, 3, Len(word))) ELSE word

(***************************************************************************)
(*                 The declarations of the file parser                     *)
(***************************************************************************)

\* the value of the enum literal val_str in parse_enum
enum_value(val_str) ==
    LET val_str_trimmed == trim_start_matches_0x(val_str)
        radix == IF val_str = val_str_trimmed THEN 10 ELSE 16
    IN  from_str_radix(val_str_trimmed, radix)

\* the Result of str::parse::<u32> followed by map_err(ParseFieldId) and `?`
field_id_or_error(result, fp) ==
    IF result.ok THEN POk(result.value, fp)
    ELSE PErr([kind |-> "ParseFieldId", error |-> result.value], fp)

\* FileParser::parse_message_field
parse_message_field(fp, type_name, rule, key_type) ==
    Then(fp_read_identifier(fp), LAMBDA field_name :
    Then(expect_token(field_name.fp, Token("Eq")), LAMBDA eq :
    Then(fp_read_identifier(eq.fp), LAMBDA word :
    Then(field_id_or_error(parse_u32(word.value), word.fp), LAMBDA field_id :
    Then(metadata(field_id.fp), LAMBDA m :
    Then(parse_option(m.fp), LAMBDA option :
        POk([name |-> field_name.value,
             field |-> Field_new(field_id.value, type_name, rule, key_type,
                                 [m.md EXCEPT !.options = <<option.value>>])],
            option.fp)))))))

\* the end of an enum value in parse_enum: `;`, or `[` ... `]` `;`
enum_value_end(fp) ==
    Then(fp_next(fp), LAMBDA t :
        CASE t.value.kind = "Semi" -> POk(<<>>, t.fp)
          [] t.value.kind = "LBrack" ->
                Then(skip_until_token(t.fp, Token("RBrack")), LAMBDA skipped :
                    expect_token(skipped.fp, Token("Semi")))
          [] OTHER ->
                PErr(UnexpectedToken(t.value, <<Token("Semi"), Token("LBrack")>>), t.fp))

\* the Result of i32::from_str_radix followed by map_err(ParseEnumValue) and `?`
enum_value_or_error(result, fp) ==
    IF result.ok THEN POk(result.value, fp)
    ELSE PErr([kind |-> "ParseEnumValue", error |-> result.value], fp)

\* the loop of parse_enum
RECURSIVE parse_enum_loop(_, _, _)
parse_enum_loop(fp, enum_name, e) ==
    Then(fp_next(fp), LAMBDA t :
        CASE t.value.kind = "RBrace" -> POk([name |-> enum_name, enum |-> e], t.fp)
          [] t.value.kind = "Identifier" ->
                Then(expect_token(t.fp, Token("Eq")), LAMBDA eq :
                Then(fp_read_identifier(eq.fp), LAMBDA val_str :
                Then(enum_value_or_error(enum_value(val_str.value), val_str.fp),
                     LAMBDA value :
                Then(enum_value_end(value.fp), LAMBDA end :
                    parse_enum_loop(end.fp, enum_name,
                        [e EXCEPT !.values = map_insert(@, t.value.text, value.value)])))))
          [] t.value.kind = "Option" ->
                Then(parse_option(t.fp), LAMBDA option :
                    parse_enum_loop(option.fp, enum_name, e))
          [] t.value.kind = "Reserved" ->
                Then(skip_until_token(t.fp, Token("Semi")), LAMBDA skipped :
                    parse_enum_loop(skipped.fp, enum_name, e))
          [] OTHER ->
                PErr(UnexpectedToken(t.value,
                        <<Token("RBrace"), TokenWith("Identifier", <<>>)>>), t.fp))

\* FileParser::parse_enum
parse_enum(fp) ==
    Then(fp_read_identifier(fp), LAMBDA enum_name :
    Then(metadata(enum_name.fp), LAMBDA m :
    Then(expect_token(m.fp, Token("LBrace")), LAMBDA brace :
        parse_enum_loop(brace.fp, enum_name.value, Enum_new(m.md)))))

\* an add_field_name that records nothing
add_field_name_nothing(oneof, name) == oneof

\* Oneof::add_field_name
add_field_name(oneof, name) == [oneof EXCEPT !.values = Append(@, name)]

\* the `if let Some(ref mut oneof) = oneof` of parse_message: the name goes to
\* the oneof being read, if there is one
add_to_active(oneof, name) ==
    IF oneof = <<>> THEN oneof
    ELSE << [oneof[1] EXCEPT !.oneof = add_field_name(@, name)] >>

\* FileParser::parse_message and its loop; oneof is the Option of the name and
\* the Oneof being read
RECURSIVE parse_message(_)
RECURSIVE parse_message_loop(_, _, _, _)
parse_message_loop(fp, message_name, message, oneof) ==
    Then(fp_next(fp), LAMBDA t :
        CASE t.value.kind = "RBrace" ->
                IF oneof # <<>>
                THEN parse_message_loop(t.fp, message_name,
                        [message EXCEPT !.oneofs =
                            map_insert(@, oneof[1].name, oneof[1].oneof)],
                        <<>>)
                ELSE POk([name |-> message_name, message |-> message], t.fp)
          [] t.value.kind = "Message" ->
                Then(parse_message(t.fp), LAMBDA nested :
                    parse_message_loop(nested.fp, message_name,
                        [message EXCEPT !.nested =
                            map_insert(@, nested.value.name, nested.value.message)],
                        oneof))
          [] t.value.kind = "Oneof" ->
                Then(fp_read_identifier(t.fp), LAMBDA name :
                Then(metadata(name.fp), LAMBDA m :
                Then(expect_token(m.fp, Token("LBrace")), LAMBDA brace :
                    parse_message_loop(brace.fp, message_name, message,
                        << [name |-> name.value, oneof |-> Oneof_new(m.md)] >>))))
          [] t.value.kind = "Enum" ->
                Then(parse_enum(t.fp), LAMBDA nested :
                    parse_message_loop(nested.fp, message_name,
                        [message EXCEPT !.nested =
                            map_insert(@, nested.value.name, nested.value.enum)],
                        oneof))
          [] t.value.kind = "Reserved" ->
                Then(parse_reserved(t.fp), LAMBDA skipped :
                    parse_message_loop(skipped.fp, message_name, message, oneof))
          [] t.value.kind = "Extensions" ->
                Then(parse_extensions(t.fp), LAMBDA skipped :
                    parse_message_loop(skipped.fp, message_name, message, oneof))
          [] t.value.kind = "Option" ->
                Then(parse_option(t.fp), LAMBDA option :
                    parse_message_loop(option.fp, message_name,
                        [message EXCEPT !.md.options = Append(@, option.value)],
                        oneof))
          [] t.value.kind = "FieldRule" ->
                Then(fp_read_identifier(t.fp), LAMBDA type_name :
                Then(parse_message_field(type_name.fp, type_name.value,
                                         <<t.value.text>>, <<>>), LAMBDA f :
                    parse_message_loop(f.fp, message_name,
                        [message EXCEPT !.fields =
                            map_insert(@, f.value.name, f.value.field)],
                        oneof)))
          [] t.value.kind = "Map" ->
                Then(expect_token(t.fp, Token("LAngle")), LAMBDA langle :
                Then(fp_read_identifier(langle.fp), LAMBDA key_type :
                Then(expect_token(key_type.fp, Token("Comma")), LAMBDA comma :
                Then(fp_read_identifier(comma.fp), LAMBDA type_name :
                Then(expect_token(type_name.fp, Token("Rangle")), LAMBDA rangle :
                Then(parse_message_field(rangle.fp, type_name.value, <<>>,
                                         <<key_type.value>>), LAMBDA f :
                    parse_message_loop(f.fp, message_name,
                        [message EXCEPT !.fields =
                            map_insert(@, f.value.name, f.value.field)],
                        oneof)))))))
          [] t.value.kind = "Identifier" ->
                Then(parse_message_field(t.fp, t.value.text, <<>>, <<>>), LAMBDA f :
                    parse_message_loop(f.fp, message_name,
                        [message EXCEPT !.fields =
                            map_insert(@, f.value.name, f.value.field)],
                        add_to_active(oneof, f.value.name)))
          [] t.value.kind = "Semi" ->
                parse_message_loop(t.fp, message_name, message, oneof)
          [] OTHER ->
                PErr([kind |-> "UnexpectedMessageToken", found |-> t.value], t.fp))

parse_message(fp) ==
    Then(fp_read_identifier(fp), LAMBDA message_name :
    Then(expect_token(message_name.fp, Token("LBrace")), LAMBDA brace :
    Then(metadata(brace.fp), LAMBDA m :
        parse_message_loop(m.fp, message_name.value, Message_new(m.md), <<>>))))

\* the `match self.next()?` of parse_rpc that reads a request or response type
rpc_type(fp) ==
    Then(fp_next(fp), LAMBDA t :
        IF t.value.kind = "Stream"
        THEN Then(fp_read_identifier(t.fp), LAMBDA name :
                POk([type |-> name.value, stream |-> TRUE], name.fp))
        ELSE Then(string_or_error(identifier(t.value), t.fp), LAMBDA i :
                POk([type |-> i.value, stream |-> FALSE], i.fp)))

\* the loop over the `{ option ... }` body of an rpc
RECURSIVE rpc_body(_, _)
rpc_body(fp, md) ==
    Then(fp_next(fp), LAMBDA t :
        CASE t.value.kind = "Option" ->
                Then(parse_option(t.fp), LAMBDA option :
                    rpc_body(option.fp, [md EXCEPT !.options = Append(@, option.value)]))
          [] t.value.kind = "RBrace" -> POk(md, t.fp)
          [] OTHER ->
                PErr(UnexpectedToken(t.value, <<Token("Option"), Token("RBrace")>>), t.fp))

\* the `match self.next()?` of parse_rpc after the response type: the
\* metadata of the rpc with the options of its body
rpc_end(fp, md) ==
    Then(fp_next(fp), LAMBDA t :
        CASE t.value.kind = "Semi" -> POk(md, t.fp)
          [] t.value.kind = "LBrace" -> rpc_body(t.fp, md)
          [] OTHER ->
                PErr(UnexpectedToken(t.value, <<Token("Semi"), Token("LBrace")>>), t.fp))

\* FileParser::parse_rpc
parse_rpc(fp) ==
    Then(fp_read_identifier(fp), LAMBDA name :
    Then(metadata(name.fp), LAMBDA m :
    Then(expect_token(m.fp, Token("LParen")), LAMBDA lparen :
    Then(rpc_type(lparen.fp), LAMBDA request :
    Then(expect_token(request.fp, Token("RParen")), LAMBDA rparen :
    Then(expect_token(rparen.fp, Token("Returns")), LAMBDA returns :
    Then(expect_token(returns.fp, Token("LParen")), LAMBDA lparen2 :
    Then(rpc_type(lparen2.fp), LAMBDA response :
    Then(expect_token(response.fp, Token("RParen")), LAMBDA rparen2 :
    Then(rpc_end(rparen2.fp, m.md), LAMBDA md :
        POk([name |-> name.value,
             rpc |-> Rpc_new(request.value.type, request.value.stream,
                             response.value.type, response.value.stream,
                             md.value)],
            md.fp)))))))))))

\* the loop of parse_service
RECURSIVE parse_service_loop(_, _, _)
parse_service_loop(fp, name, service) ==
    Then(fp_next(fp), LAMBDA t :
        CASE t.value.kind = "RBrace" -> POk([name |-> name, service |-> service], t.fp)
          [] t.value.kind = "Semi" -> parse_service_loop(t.fp, name, service)
          [] t.value.kind = "Rpc" ->
                Then(parse_rpc(t.fp), LAMBDA r :
                    parse_service_loop(r.fp, name,
                        [service EXCEPT !.methods =
                            map_insert(@, r.value.name, r.value.rpc)]))
          [] t.value.kind = "Option" ->
                Then(parse_option(t.fp), LAMBDA option :
                    parse_service_loop(option.fp, name, service))
          [] OTHER ->
                PErr(UnexpectedToken(t.value,
                        <<Token("RBrace"), Token("Rpc"), Token("Option")>>), t.fp))

\* FileParser::parse_service
parse_service(fp) ==
    Then(fp_read_identifier(fp), LAMBDA name :
    Then(metadata(name.fp), LAMBDA m :
    Then(expect_token(m.fp, Token("LBrace")), LAMBDA brace :
        parse_service_loop(brace.fp, name.value, Service_new(m.md)))))

proto3 == <<"p", "r", "o", "t", "o", "3">>
proto2 == <<"p", "r", "o", "t", "o", "2">>

\* one turn of the loop of FileParser::parse_helper: the value is "EOF" when
\* the loop returns Ok(()), "more" when it goes on
parse_helper_turn(fp) ==
    Then(fp_next(fp), LAMBDA t :
        CASE t.value.kind = "EOF" -> POk("EOF", t.fp)
          [] t.value.kind = "Package" ->
                Then(parse_package(t.fp), LAMBDA r : POk("more", r.fp))
          [] t.value.kind = "Import" ->
                Then(parse_import(t.fp), LAMBDA r : POk("more", r.fp))
          [] t.value.kind = "Syntax" ->
                Then(parse_syntax(t.fp), LAMBDA syntax :
                    IF syntax.value # proto3 /\ syntax.value # proto2
                    THEN PErr([kind |-> "ProtoSyntaxNotSupported",
                               syntax |-> syntax.value], syntax.fp)
                    ELSE POk("more", syntax.fp))
          [] t.value.kind = "Option" ->
                Then(parse_option(t.fp), LAMBDA r : POk("more", r.fp))
          [] t.value.kind = "Service" ->
                Then(parse_service(t.fp), LAMBDA r :
                    POk("more", [r.fp EXCEPT !.namespace.services =
                                    map_insert(@, r.value.name, r.value.service)]))
          [] t.value.kind = "Message" ->
                Then(parse_message(t.fp), LAMBDA r :
                    POk("more", [r.fp EXCEPT !.namespace.types =
                                    map_insert(@, r.value.name, r.value.message)]))
          [] t.value.kind = "Extend" ->
                Then(parse_message(t.fp), LAMBDA r : POk("more", r.fp))
          [] t.value.kind = "Enum" ->
                Then(parse_enum(t.fp), LAMBDA r :
                    POk("more", [r.fp EXCEPT !.namespace.types =
                                    map_insert(@, r.value.name, r.value.enum)]))
          [] t.value.kind = "Semi" -> POk("more", t.fp)
          [] OTHER ->
                PErr([kind |-> "UnexpectedTopLevelToken", found |-> t.value], t.fp))

\* the Result of FileParser::parse once parse_helper has returned
ParseErrorWithPosition(error, position) ==
    [ok |-> FALSE, error |-> error, position |-> position]
ParsedNamespace(namespace) == [ok |-> TRUE, namespace |-> namespace]

(***************************************************************************)
(*                      The texts the file parser reads                    *)
(***************************************************************************)

MaxFields == 2
MaxLiteral == 5
MaxStatements == 3
MaxItems == 4

\* the concatenation of the texts of a sequence
RECURSIVE Concat(_)
Concat(texts) == IF texts = <<>> THEN <<>> ELSE Head(texts) \o Concat(Tail(texts))

\* A message M whose body is at most MaxFields field declarations, each on a
\* line of its own: the i-th field has the i-th name, a type t, and
\*   above:    no comment above it, a // comment on the line above it, or a
\*             // comment and an empty line above it,
\*   id:       the word after `=`,
\*   after:    what stands between that word and the `;`,
\*   trailing: a // comment after the `;`.
FieldNames == <<"f", "g", "h", "i">>
FieldIds == {<<"1">>, <<"a", "b", "c">>}
Afters == {<<>>, <<" ", "x">>, <<"[", "d", "=", "e", "]">>, <<"\n">>}
FieldItems ==
    [above : {"none", "comment", "apart"}, id : FieldIds, after : Afters,
     trailing : BOOLEAN]
AboveText(item) ==
    CASE item.above = "none" -> <<>>
      [] item.above = "comment" -> <<"/", "/", "l", "\n">>
      [] item.above = "apart" -> <<"/", "/", "l", "\n", "\n">>
BeforeId(item, i) == AboveText(item) \o <<"t", " ", FieldNames[i], " ", "=", " ">>
FieldText(item, i) ==
    BeforeId(item, i) \o item.id \o item.after \o <<";">>
    \o (IF item.trailing THEN <<" ", "/", "/", "t">> ELSE <<>>) \o <<"\n">>
MessageOpen == <<"m", "e", "s", "s", "a", "g", "e", " ", "M", " ", "{", "\n">>
FieldSources ==
    {[kind |-> "fields", items |-> items] : items \in UpTo(FieldItems, MaxFields) \ {<<>>}}
FieldsText(src) ==
    MessageOpen \o Concat([i \in 1..Len(src.items) |-> FieldText(src.items[i], i)])
    \o <<"}">>

\* An enum E with one value A whose literal is any word of at most MaxLiteral
\* of the characters 0 1 x f, with or without a sign in front, or one of the
\* literals around the ends of the i32 range.
BoundaryLiterals ==
    {<<"2", "1", "4", "7", "4", "8", "3", "6", "4", "7">>, <<"2", "1", "4", "7", "4", "8", "3", "6", "4", "8">>, <<"-", "2", "1", "4", "7", "4", "8", "3", "6", "4", "8">>, <<"-", "2", "1", "4", "7", "4", "8", "3", "6", "4", "9">>, <<"0", "x", "7", "f", "f", "f", "f", "f", "f", "f">>, <<"0", "x", "8", "0", "0", "0", "0", "0", "0", "0">>}
EnumLiterals ==
    LET words == UpTo({"0", "1", "x", "f"}, MaxLiteral) \ {<<>>}
    IN  words \cup {<<"-">> \o w : w \in words} \cup BoundaryLiterals
EnumSources == {[kind |-> "enum", literal |-> l] : l \in EnumLiterals}
EnumText(src) == <<"e", "n", "u", "m", " ", "E", " ", "{", "\n", "A", " ", "=", " ">> \o src.literal \o <<";", "\n", "}">>

\* At most MaxStatements top level statements, each on a line of its own
StatementTexts ==
    ("p" :> <<"p", "a", "c", "k", "a", "g", "e", " ", "p", ";">>) @@ ("q" :> <<"p", "a", "c", "k", "a", "g", "e", " ", "q", ".", "r", ";">>) @@ ("semi" :> <<";">>) @@ ("message" :> <<"m", "e", "s", "s", "a", "g", "e", " ", "M", " ", "{", "}">>)
StatementSources ==
    {[kind |-> "statements", items |-> items] :
        items \in UpTo(DOMAIN StatementTexts, MaxStatements) \ {<<>>}}
StatementsText(src) ==
    Concat([i \in 1..Len(src.items) |-> StatementTexts[src.items[i]] \o <<"\n">>])

\* A `;` where a declaration is expected: alone, before a declaration or after
\* one, at the top level or in the body of a message, an enum or a service
Contexts == {"top", "message", "enum", "service"}
ContextOpen ==
    ("top" :> <<>>) @@ ("message" :> <<"m", "e", "s", "s", "a", "g", "e", " ", "M", " ", "{", "\n">>) @@ ("enum" :> <<"e", "n", "u", "m", " ", "E", " ", "{", "\n">>)
    @@ ("service" :> <<"s", "e", "r", "v", "i", "c", "e", " ", "S", " ", "{", "\n">>)
ContextClose == [c \in Contexts |-> IF c = "top" THEN <<>> ELSE <<"}">>]
ContextDeclaration ==
    ("top" :> <<"m", "e", "s", "s", "a", "g", "e", " ", "M", " ", "{", "}">>) @@ ("message" :> <<"t", " ", "f", " ", "=", " ", "1", ";">>) @@ ("enum" :> <<"A", " ", "=", " ", "0", ";">>)
    @@ ("service" :> <<"r", "p", "c", " ", "r", " ", "(", "a", ")", " ", "r", "e", "t", "u", "r", "n", "s", " ", "(", "b", ")", ";">>)
StraySources ==
    {[kind |-> "stray", context |-> c, place |-> p] :
        c \in Contexts, p \in {"alone", "before", "after"}}
StrayText(src) ==
    ContextOpen[src.context]
    \o (CASE src.place = "alone" -> <<";", "\n">>
          [] src.place = "before" -> <<";", "\n">> \o ContextDeclaration[src.context] \o <<"\n">>
          [] src.place = "after" -> ContextDeclaration[src.context] \o <<"\n", ";", "\n">>)
    \o ContextClose[src.context]

\* A message M whose body is at most MaxItems of: a field a or b with a bare
\* type, a repeated field c, the opening of a oneof o or p, a `}`
OneofItemTexts ==
    ("a" :> <<"t", " ", "a", " ", "=", " ", "1", ";">>) @@ ("b" :> <<"t", " ", "b", " ", "=", " ", "2", ";">>) @@ ("c" :> <<"r", "e", "p", "e", "a", "t", "e", "d", " ", "t", " ", "c", " ", "=", " ", "3", ";">>) @@ ("o" :> <<"o", "n", "e", "o", "f", " ", "o", " ", "{">>) @@ ("p" :> <<"o", "n", "e", "o", "f", " ", "p", " ", "{">>)
    @@ ("}" :> <<"}">>)
OneofSources ==
    {[kind |-> "oneof", items |-> items] : items \in UpTo(DOMAIN OneofItemTexts, MaxItems)}
OneofText(src) ==
    MessageOpen
    \o Concat([i \in 1..Len(src.items) |-> OneofItemTexts[src.items[i]] \o <<"\n">>])
    \o <<"}">>

\* A construct that is skipped up to its delimiter: a reserved or extensions
\* statement of a message, a reserved statement of an enum, the bracketed
\* options of an enum value; closed by its delimiter, followed by the closing
\* brace without it, or followed by nothing
Skipped == {"reserved", "extensions", "enum_reserved", "enum_value_options"}
SkippedOpen ==
    ("reserved" :> <<"m", "e", "s", "s", "a", "g", "e", " ", "M", " ", "{", "\n", "r", "e", "s", "e", "r", "v", "e", "d", " ", "1">>)
    @@ ("extensions" :> <<"m", "e", "s", "s", "a", "g", "e", " ", "M", " ", "{", "\n", "e", "x", "t", "e", "n", "s", "i", "o", "n", "s", " ", "1">>)
    @@ ("enum_reserved" :> <<"e", "n", "u", "m", " ", "E", " ", "{", "\n", "r", "e", "s", "e", "r", "v", "e", "d", " ", "1">>)
    @@ ("enum_value_options" :> <<"e", "n", "u", "m", " ", "E", " ", "{", "\n", "A", " ", "=", " ", "1", " ", "[", "x">>)
SkippedClose ==
    [s \in Skipped |-> IF s = "enum_value_options" THEN <<"]", ";">> ELSE <<";">>]
SkippedSources ==
    {[kind |-> "skipped", construct |-> s, ending |-> e] :
        s \in Skipped, e \in {"closed", "brace", "nothing"}}
SkippedText(src) ==
    SkippedOpen[src.construct]
    \o (CASE src.ending = "closed" -> SkippedClose[src.construct] \o <<"\n", "}">>
          [] src.ending = "brace" -> <<"\n", "}">>
          [] src.ending = "nothing" -> <<>>)

FileSources ==
    FieldSources \cup EnumSources \cup StatementSources \cup StraySources
    \cup OneofSources \cup SkippedSources

\* the text of a source of the file parser
FileText(src) ==
    CASE src.kind = "fields" -> FieldsText(src)
      [] src.kind = "enum" -> EnumText(src)
      [] src.kind = "statements" -> StatementsText(src)
      [] src.kind = "stray" -> StrayText(src)
      [] src.kind = "oneof" -> OneofText(src)
      [] src.kind = "skipped" -> SkippedText(src)
      [] OTHER -> <<>>

FileParserIdle ==
    /\ file_parser = FileParser(<<>>)
    /\ lexed = <<>>
    /\ parsed = <<>>

\* no path is being made relative
RelativeIdle == relative = <<>>

\* no iterator is being read on its own
IteratorIdle ==
    /\ iterator = IteratorWithPosition(<<>>)
    /\ before = PositionDefault

(***************************************************************************)
(*                      The resolver's state machine                       *)
(***************************************************************************)

Init ==
    /\ \E a \in AFiles({"none", "N", "p"}),
          b \in BFiles({"none", "N"}),
          c \in CFiles(WrittenNames, {"none", "N", "p"}) :
          files = ("a.proto" :> a) @@ ("b.proto" :> b) @@ ("c.proto" :> c)
    /\ written = files
    /\ status = [f \in Files |-> "parsed"]
    /\ root = empty
    /\ ParserIdle
    /\ TrieIdle
    /\ TokenizerIdle
    /\ FileParserIdle
    /\ RelativeIdle
    /\ IteratorIdle

\* the same files, every written name being one scalar type name s, which the
\* file itself and the files it imports may declare as a message
InitScalars ==
    /\ \E s \in SCALARS :
          \E a \in AFiles({"none", s}),
             b \in BFiles({"none", s}),
             c \in CFiles({<<s>>}, {"none", s}) :
             files = ("a.proto" :> a) @@ ("b.proto" :> b) @@ ("c.proto" :> c)
    /\ written = files
    /\ status = [f \in Files |-> "parsed"]
    /\ root = empty
    /\ ParserIdle
    /\ TrieIdle
    /\ TokenizerIdle
    /\ FileParserIdle
    /\ RelativeIdle
    /\ IteratorIdle

\* files[f].normalize_types(dependencies), the dependencies being the visible
\* imported namespaces of f in any order
NormalizeTypes(f) ==
    \E order \in Orders(Dependencies(files, f)) :
        /\ files' = [files EXCEPT ![f] =
                        normalize_types(files[f],
                                        [i \in DOMAIN order |-> files[order[i]]])]
        /\ status' = [status EXCEPT ![f] = "resolved"]
        /\ UNCHANGED <<written, root, appended, parser_vars, tokenizer_vars, file_parser_vars, relative_vars, iterator_vars>>

Next == \E f \in Files : NormalizeTypes(f)

Spec == Init /\ [][Next]_vars

SpecScalars == InitScalars /\ [][Next]_vars

(***************************************************************************)
(*                       The trie's state machine                          *)
(***************************************************************************)

\* let mut root = Namespace::empty();
InitTrie ==
    /\ root = empty
    /\ appended = <<>>
    /\ ParserIdle
    /\ ResolverIdle
    /\ TokenizerIdle
    /\ FileParserIdle
    /\ RelativeIdle
    /\ IteratorIdle

\* root.append_child(c)
AppendChild(c) ==
    /\ Len(appended) < MaxAppends
    /\ root' = append_child(root, c)
    /\ appended' = Append(appended, c)
    /\ UNCHANGED <<resolver_vars, parser_vars, tokenizer_vars, file_parser_vars, relative_vars, iterator_vars>>

NextTrie == \E c \in Children : AppendChild(c)

SpecTrie == InitTrie /\ [][NextTrie]_vars

(***************************************************************************)
(*                      The driver's state machine                         *)
(***************************************************************************)

\* Parser::new(root_dir, ignored_files) over a disk
InitParser ==
    /\ \E a \in DiskContents("a.proto"), b \in DiskContents("b.proto"),
          c \in DiskContents("c.proto"), d \in DiskContents("d.proto") :
          disk = ("a.proto" :> a) @@ ("b.proto" :> b) @@ ("c.proto" :> c)
                 @@ ("d.proto" :> d)
    /\ ignored_files \in IgnoredSets
    /\ root = new(ignored_files).root
    /\ parsed_files = new(ignored_files).parsed_files
    /\ reads = NoReads
    /\ parses = NoReads
    /\ last = NoCall
    /\ TrieIdle
    /\ ResolverIdle
    /\ TokenizerIdle
    /\ FileParserIdle
    /\ RelativeIdle
    /\ IteratorIdle

\* parser.parse_file(file_name), called from outside
ParseFile(file_name) ==
    \E o \in parse_file([root |-> root, parsed_files |-> parsed_files,
                         reads |-> reads, parses |-> parses, result |-> "Ok"],
                        file_name, MaxDepth) :
        /\ root' = o.root
        /\ parsed_files' = o.parsed_files
        /\ reads' = o.reads
        /\ parses' = o.parses
        /\ last' = [file_name |-> file_name, result |-> o.result, root |-> root,
                    parsed_files |-> parsed_files, reads |-> reads]
        /\ UNCHANGED <<disk, ignored_files, appended, resolver_vars, tokenizer_vars, file_parser_vars, relative_vars, iterator_vars>>

NextParser == \E file_name \in Paths : ParseFile(file_name)

SpecParser == InitParser /\ [][NextParser]_vars

(***************************************************************************)
(*                    The claims about the resolver                        *)
(***************************************************************************)

\* the type_name cells of a fragment: <<message path, field name>> and
\* <<service name, method name>>
FieldCells(ns) ==
    UNION {{<<tp, fld>> : fld \in DOMAIN ns.types[tp].fields} : tp \in DOMAIN ns.types}
RpcCells(ns) ==
    UNION {{<<sv, m>> : m \in DOMAIN ns.services[sv]} : sv \in DOMAIN ns.services}

FieldType(ns, cell) == ns.types[cell[1]].fields[cell[2]]

IsScalar(w) == Len(w) = 1 /\ w[1] \in SCALARS
IsBare(w) == Len(w) = 1 /\ w[1] # "" /\ ~IsScalar(w)

\* C1: a field written as a bare name that matches a nested type of the
\* message holding the field is resolved to that nested type (the package
\* path, the message path, the name), whatever the imports declare.
C1_SiblingNestedTypeWins ==
    \A f \in Files :
        status[f] = "resolved" =>
            \A cell \in FieldCells(written[f]) :
                LET w == FieldType(written[f], cell)
                IN  (IsBare(w) /\ (cell[1] \o w) \in DOMAIN written[f].types)
                    => no_leading_dot(FieldType(files[f], cell))
                         = written[f].path \o cell[1] \o w

RpcTypes(ns, cell) ==
    {ns.services[cell[1]][cell[2]].request_type,
     ns.services[cell[1]][cell[2]].response_type}

\* the message scopes that enclose the fields of the message at path tp,
\* innermost last: the prefixes of tp
EnclosingScopes(tp) == {SubSeq(tp, 1, i) : i \in 1..Len(tp)}

\* package P declares the top-level type w, in file f itself or in a file f
\* imports directly
DeclaredInPackage(f, w) ==
    \/ w \in DOMAIN written[f].types
    \/ \E g \in ImportedBy(written[f]) :
          written[g].path = written[f].path /\ w \in DOMAIN written[g].types

\* C2: in a file of package P a bare name T of a top-level type of package P
\* (declared in the file or in a directly imported file of the package) is
\* rewritten to P's segments followed by T, for a field (of a message none of
\* whose enclosing scopes nests a T) and for an rpc request or response.
C2_BareNameBecomesAbsolute ==
    \A f \in Files :
        status[f] = "resolved" =>
            /\ \A cell \in FieldCells(written[f]) :
                  LET w == FieldType(written[f], cell)
                  IN  (/\ IsBare(w)
                       /\ DeclaredInPackage(f, w)
                       /\ \A sc \in EnclosingScopes(cell[1]) :
                             (sc \o w) \notin DOMAIN written[f].types)
                      => no_leading_dot(FieldType(files[f], cell)) = written[f].path \o w
            /\ \A cell \in RpcCells(written[f]) :
                  LET w == written[f].services[cell[1]][cell[2]].request_type
                  IN  (IsBare(w) /\ DeclaredInPackage(f, w))
                      => no_leading_dot(files[f].services[cell[1]][cell[2]].request_type)
                           = written[f].path \o w

\* a name written with a leading dot
IsFullyQualified(w) == Len(w) > 1 /\ w[1] = ""

\* C3: a field type written with a leading dot has the same resolved name in
\* every message of the file, at any nesting depth, and as an rpc type: the
\* absolute path that was written; the nested types of the enclosing
\* messages play no part.
C3_FullyQualifiedSameEverywhere ==
    \A f \in Files :
        status[f] = "resolved" =>
            /\ \A cell \in FieldCells(written[f]) :
                  IsFullyQualified(FieldType(written[f], cell))
                  => FieldType(files[f], cell) = FieldType(written[f], cell)
            /\ \A c1, c2 \in FieldCells(written[f]) :
                  (/\ IsFullyQualified(FieldType(written[f], c1))
                   /\ FieldType(written[f], c1) = FieldType(written[f], c2))
                  => FieldType(files[f], c1) = FieldType(files[f], c2)

\* C3's case: a resolved file holds the same leading-dot name in a top-level
\* message and in a message nested in it, the named type p.N is declared by
\* the file, and the enclosing message nests a type N of its own
C3_Witness ==
    /\ status["c.proto"] = "resolved"
    /\ <<"M", "N">> \in DOMAIN written["c.proto"].types
    /\ written["c.proto"].types[<<"M", "N">>].kind = "message"
    /\ <<"N">> \in DOMAIN written["c.proto"].types
    /\ FieldType(written["c.proto"], <<<<"M">>, "f">>) = <<"", "p", "N">>
    /\ FieldType(files["c.proto"], <<<<"M", "N">>, "f">>) = <<"", "p", "N">>

\* no file declares, at any depth, a type whose name is the last segment of w
DeclaredNowhere(w) ==
    \A g \in Files : \A tp \in DOMAIN written[g].types : tp[Len(tp)] # w[Len(w)]

\* C4: a.proto imports b.proto, c.proto imports only a.proto and names a
\* type that only b.proto declares, by its qualified name. If a's import of
\* b is public the name is resolved to the type of b; if it is not, the
\* resolution of c.proto fails (it does not return normally).
C4_PublicImportIsTransitive ==
    LET a == written["a.proto"]
        b == written["b.proto"]
        c == written["c.proto"]
        w == b.path \o <<"N">>
    IN  (/\ status["c.proto"] = "resolved"
         /\ ImportedBy(c) = {"a.proto"}
         /\ ImportedBy(a) = {"b.proto"}
         /\ <<"N">> \in DOMAIN b.types
         /\ \A g \in {a, c} : ~(g.path = b.path /\ <<"N">> \in DOMAIN g.types)
         /\ FieldType(c, <<<<"M">>, "f">>) = w)
        => /\ PubliclyImportedBy(a) = {"b.proto"}
           /\ no_leading_dot(FieldType(files["c.proto"], <<<<"M">>, "f">>)) = w

\* C5: a resolution that returns normally leaves no non-scalar field or rpc
\* type that no file declares: such a reference makes the resolution fail
\* with an error instead.
C5_UnresolvedIsAnError ==
    \A f \in Files :
        status[f] = "resolved" =>
            /\ \A cell \in FieldCells(written[f]) :
                  LET w == FieldType(written[f], cell)
                  IN  ~(~IsScalar(w) /\ DeclaredNowhere(w))
            /\ \A cell \in RpcCells(written[f]) :
                  \A w \in RpcTypes(written[f], cell) :
                      ~(~IsScalar(w) /\ DeclaredNowhere(w))

\* C6: a field or rpc type written as one of the scalar type names is the
\* same after the resolution, whatever the file and its imports declare.
C6_ScalarsNeverRewritten ==
    \A f \in Files :
        status[f] = "resolved" =>
            /\ \A cell \in FieldCells(written[f]) :
                  IsScalar(FieldType(written[f], cell))
                  => FieldType(files[f], cell) = FieldType(written[f], cell)
            /\ \A cell \in RpcCells(written[f]) :
                  LET w == written[f].services[cell[1]][cell[2]]
                      r == files[f].services[cell[1]][cell[2]]
                  IN  /\ IsScalar(w.request_type) => r.request_type = w.request_type
                      /\ IsScalar(w.response_type) => r.response_type = w.response_type

\* C6's case: c.proto is resolved, its field and its rpc request are written
\* bytes, and c.proto itself and the imported a.proto declare a message bytes
C6_Witness ==
    /\ status["c.proto"] = "resolved"
    /\ FieldType(written["c.proto"], <<<<"M">>, "f">>) = <<"bytes">>
    /\ written["c.proto"].services["S"]["Call"].request_type = <<"bytes">>
    /\ <<"bytes">> \in DOMAIN written["c.proto"].types
    /\ ImportedBy(written["c.proto"]) = {"a.proto"}
    /\ <<"bytes">> \in DOMAIN written["a.proto"].types

\* C7: running the resolver on a file it has already resolved changes no
\* field type name and no rpc type name of the file.
C7_ReResolvingChangesNothing ==
    [][\A f \in Files : status[f] = "resolved" => files'[f] = files[f]]_vars

(***************************************************************************)
(*                     The tokenizer's state machine                       *)
(***************************************************************************)

\* Tokenizer::new over the text of a source
InitTokenizer(sources) ==
    /\ source \in sources
    /\ tokenizer = Tokenizer(TextOf(source))
    /\ returned = <<>>
    /\ root = empty
    /\ TrieIdle
    /\ ParserIdle
    /\ ResolverIdle
    /\ FileParserIdle
    /\ RelativeIdle
    /\ IteratorIdle

InitStrings == InitTokenizer(StringSources)
InitLines == InitTokenizer(LineSources)
InitBlocks == InitTokenizer(BlockSources)

\* tokenizer.next(), until it has returned EOF or an error
NextToken ==
    /\ IF returned = <<>> THEN TRUE
       ELSE /\ returned[Len(returned)].ok
            /\ returned[Len(returned)].value.kind # "EOF"
    /\ LET r == next(tokenizer)
       IN  /\ tokenizer' = r.self
           /\ returned' = Append(returned, [ok |-> r.result.ok, value |-> r.result.value])
    /\ UNCHANGED <<source, root, appended, resolver_vars, parser_vars, file_parser_vars, relative_vars, iterator_vars>>

SpecStrings == InitStrings /\ [][NextToken]_vars
SpecLines == InitLines /\ [][NextToken]_vars
SpecBlocks == InitBlocks /\ [][NextToken]_vars

(***************************************************************************)
(*                    The file parser's state machine                      *)
(***************************************************************************)

\* FileParser::new(file_name, content.chars()), the content being the text
\* of any of the sources
InitFileParser ==
    /\ source \in FileSources
    /\ file_parser = FileParser(FileText(source))
    /\ lexed = Lexed(Tokenizer(FileText(source)))
    /\ parsed = <<>>
    /\ RelativeIdle
    /\ IteratorIdle
    /\ tokenizer = Tokenizer(<<>>)
    /\ returned = <<>>
    /\ root = empty
    /\ TrieIdle
    /\ ParserIdle
    /\ ResolverIdle

\* what a turn of the loop leaves: when the loop returns, parse returns the
\* namespace or the error with the tokenizer's current position.  A turn that
\* never returns is never taken.
Returns(r) ==
    /\ IF r.ok THEN TRUE ELSE r.value.kind # "NeverReturns"
    /\ file_parser' = r.fp
    /\ parsed' =
          IF ~r.ok
          THEN << ParseErrorWithPosition(r.value,
                                         current_position(r.fp.tokenizer.chars)) >>
          ELSE IF r.value = "EOF" THEN << ParsedNamespace(r.fp.namespace) >>
          ELSE <<>>

\* one turn of the loop of parse_helper inside FileParser::parse
ParseTurn ==
    /\ parsed = <<>>
    /\ Returns(parse_helper_turn(file_parser))
    /\ UNCHANGED <<source, tokenizer, returned, lexed, root, appended,
                   resolver_vars, parser_vars, relative_vars, iterator_vars>>

SpecFileParser == InitFileParser /\ [][ParseTurn]_vars

\* FileParser::parse runs on: a turn of the loop that can be taken is taken
SpecFileParserRuns == SpecFileParser /\ WF_vars(ParseTurn)

(***************************************************************************)
(*                  The relative-to rule's state machine                   *)
(***************************************************************************)

\* the segments paths are made of, and the longest path
Segments == {"pb", "example", "other", "Request"}
MaxPath == 3

\* the types of the namespace a written path is resolved against: a message
\* Request with a nested enum other
RelativeTypes == (<<"Request">> :> Message(EmptyMap)) @@ (<<"Request", "other">> :> Enum)

\* a written path and a namespace path, nothing called yet
InitRelative ==
    /\ \E object \in UpTo(Segments, MaxPath), dest \in UpTo(Segments, MaxPath) :
          relative = [object |-> object, dest |-> dest, suffix |-> <<>>, index |-> <<>>,
                      resolved |-> <<>>]
    /\ source = NoSource
    /\ TokenizerIdle
    /\ FileParserIdle
    /\ IteratorIdle
    /\ root = empty
    /\ TrieIdle
    /\ ParserIdle
    /\ ResolverIdle

\* object.relative_to(dest).collect()
RelativeTo ==
    /\ relative.suffix = <<>>
    /\ relative' = [relative EXCEPT !.suffix = << relative_to(relative.object, relative.dest) >>]
    /\ UNCHANGED <<root, appended, resolver_vars, parser_vars, tokenizer_vars,
                   file_parser_vars, iterator_vars>>

\* Namespace::new(dest).relative_path_index(&object)
RelativePathIndex ==
    /\ relative.index = <<>>
    /\ relative' = [relative EXCEPT !.index = << relative_path_index(relative.dest, relative.object) >>]
    /\ UNCHANGED <<root, appended, resolver_vars, parser_vars, tokenizer_vars,
                   file_parser_vars, iterator_vars>>

\* ns.resolve_path(&object), ns being the namespace of path dest that holds
\* RelativeTypes
ResolvePath ==
    /\ relative.resolved = <<>>
    /\ relative' = [relative EXCEPT !.resolved =
            << resolve_path(Namespace(relative.dest, {}, RelativeTypes, EmptyMap),
                            relative.object) >>]
    /\ UNCHANGED <<root, appended, resolver_vars, parser_vars, tokenizer_vars,
                   file_parser_vars, iterator_vars>>

NextRelative == RelativeTo \/ RelativePathIndex \/ ResolvePath

SpecRelative == InitRelative /\ [][NextRelative]_vars

(***************************************************************************)
(*             The state machine of IteratorWithPosition                   *)
(***************************************************************************)

MaxChars == 4

\* IteratorWithPosition::new over a text of at most MaxChars characters
InitIterator ==
    /\ \E text \in UpTo({"a", " ", "\n"}, MaxChars) : iterator = IteratorWithPosition(text)
    /\ before = PositionDefault
    /\ source = NoSource
    /\ TokenizerIdle
    /\ FileParserIdle
    /\ RelativeIdle
    /\ root = empty
    /\ TrieIdle
    /\ ParserIdle
    /\ ResolverIdle

\* r is what a call has returned: the iterator is as the call left it, and
\* when the call took a character from the text, before is the position it
\* found
Called(r) ==
    /\ iterator' = r.it
    /\ before' = IF r.it.taken # iterator.taken THEN iterator.position ELSE before
    /\ UNCHANGED <<root, appended, resolver_vars, parser_vars, tokenizer_vars,
                   file_parser_vars, relative_vars>>

\* iterator.next()
IteratorNext == Called(chars_next(iterator))

\* iterator.next_if(func)
IteratorNextIf == \E func \in {"is_word_char", "is_not_new_line"} : Called(next_if(iterator, func))

NextIterator == IteratorNext \/ IteratorNextIf

SpecIterator == InitIterator /\ [][NextIterator]_vars

(***************************************************************************)
(*                     The claims about the driver                         *)
(***************************************************************************)

\* some file can reach itself through imports on the disk
RECURSIVE ImportReach(_, _)
ImportReach(S, k) ==
    IF k = 0 THEN S
    ELSE ImportReach(
            S \cup UNION {ImportedBy(disk[g].namespace) :
                            g \in {h \in S : disk[h].kind = "parsed"}},
            k - 1)
ImportsOf(p) ==
    IF disk[p].kind = "parsed" THEN ImportedBy(disk[p].namespace) ELSE {}
OnCycle(p) == p \in ImportReach(ImportsOf(p), Cardinality(Paths))

\* p imports two files that both import one third file
TopOfDiamond(p) ==
    \E x, y \in ImportsOf(p) : x # y /\ ImportsOf(x) \cap ImportsOf(y) # {}

\* C8: over any sequence of parse_file calls, the recursive calls for imports
\* in cyclic and diamond-shaped import graphs included, every path is read at
\* most once and parsed at most once, an ignored path is never read, and a
\* call for a path already in parsed_files returns Ok with the root and the
\* read counts as they were before the call.
C8_EachPathReadAtMostOnce ==
    /\ \A p \in Paths : reads[p] <= 1 /\ parses[p] <= reads[p]
    /\ \A p \in ignored_files : reads[p] = 0
    /\ (last.file_name # "" /\ last.file_name \in last.parsed_files)
          => /\ last.result = "Ok"
             /\ root = last.root
             /\ reads = last.reads
             /\ parsed_files = last.parsed_files

\* C8 witness: a file on an import cycle, the top of a diamond and a file
\* that imports an ignored file have been read, every import of the diamond's
\* top once, and the last call was made for a path that had been parsed before.
C8_Witness ==
    /\ \E p \in Paths : OnCycle(p) /\ reads[p] = 1
    /\ \E p \in Paths :
          /\ TopOfDiamond(p) /\ reads[p] = 1 /\ parses[p] = 1
          /\ \A x \in ImportsOf(p) : reads[x] = 1
    /\ \E p \in Paths : parses[p] = 1 /\ ImportsOf(p) \cap ignored_files # {}
    /\ last.file_name # ""
    /\ last.file_name \in last.parsed_files \ ignored_files
    /\ last.result = "Ok"

\* C9: when a parse_file call fails, the root namespace is as it was before the
\* call: it holds no type or service contributed by that call.
C9_FailedCallLeavesRootUntouched ==
    (last.file_name # "" /\ last.result # "Ok") => root = last.root

(***************************************************************************)
(*                      The claims about the trie                          *)
(***************************************************************************)

\* the entries of the type table `later` that replace, and those of `earlier`
\* that stay, are the entries of table
HoldsBoth(table, earlier, later, top(_)) ==
    /\ \A k \in DOMAIN later : k \in DOMAIN table /\ table[k] = later[k]
    /\ \A k \in DOMAIN earlier :
          top(k) \notin {top(j) : j \in DOMAIN later}
             => k \in DOMAIN table /\ table[k] = earlier[k]

FirstSegment(tp) == tp[1]
Itself(name) == name

\* the last two children appended have the same path
LastTwoSamePath ==
    /\ Len(appended) >= 2
    /\ appended[Len(appended) - 1].path = appended[Len(appended)].path

\* the node of the last child's path holds the types and services of the last
\* two children, the later child winning on a name they share
LastTwoTypesAndServicesMerged ==
    LastTwoSamePath =>
        LET x == appended[Len(appended) - 1]
            y == appended[Len(appended)]
        IN  /\ Cardinality(child(root, y.path)) = 1
            /\ \A node \in child(root, y.path) :
                  /\ HoldsBoth(node.types, x.types, y.types, FirstSegment)
                  /\ HoldsBoth(node.services, x.services, y.services, Itself)

\* every nested namespace of the last two children is a nested namespace of
\* the node, with its types
LastTwoNestedMerged ==
    LastTwoSamePath =>
        LET x == appended[Len(appended) - 1]
            y == appended[Len(appended)]
        IN  \A node \in child(root, y.path) :
               \A c \in {x, y} : \A key \in DOMAIN c.nested :
                  /\ key \in DOMAIN node.nested
                  /\ \A k \in DOMAIN c.nested[key].types :
                        k \in DOMAIN node.nested[key].types

\* C10: appending two fragments with equal package paths yields one trie node
\* whose type map and service map contain every entry of both, the entry of
\* the fragment appended last being kept for a name both define, and the
\* nested namespaces of both fragments are merged into the node, none of them
\* replaced or dropped.
C10_SamePathFragmentsMerge ==
    LastTwoTypesAndServicesMerged /\ LastTwoNestedMerged

\* the node that the keys of path lead to from ns, one child() call per key:
\* the set of at most one namespace
RECURSIVE Descend(_, _)
Descend(ns, path) ==
    IF path = <<>> THEN {ns}
    ELSE UNION {Descend(n, Tail(path)) : n \in child(ns, <<Head(path)>>)}

\* C11: after append_child of a fragment, the root has one chained nested node
\* per segment of the fragment's package path (for a.b.c: a, in it b, in it c,
\* each found by child() one level at a time), and the last of them holds the
\* fragment's types and services.
C11_PackagePathIsAChainOfNodes ==
    Len(appended) >= 1 =>
        LET y == appended[Len(appended)]
        IN  /\ \A i \in 1..Len(y.path) :
                  Cardinality(Descend(root, SubSeq(y.path, 1, i))) = 1
            /\ Descend(root, y.path) = child(root, y.path)
            /\ \A node \in Descend(root, y.path) :
                  /\ \A k \in DOMAIN y.types :
                        k \in DOMAIN node.types /\ node.types[k] = y.types[k]
                  /\ \A k \in DOMAIN y.services :
                        k \in DOMAIN node.services /\ node.services[k] = y.services[k]

\* C11 witness: the fragment appended last has the package path a.b.c and
\* declares types and a service, and the node a.b.c holds them.
C11_Witness ==
    /\ Len(appended) >= 1
    /\ appended[Len(appended)].path = <<"a", "b", "c">>
    /\ appended[Len(appended)].types # EmptyMap
    /\ appended[Len(appended)].services # EmptyMap
    /\ \E a \in child(root, <<"a">>) : \E b \in child(a, <<"b">>) :
          \E c \in child(b, <<"c">>) :
             /\ c.types = appended[Len(appended)].types
             /\ c.services = appended[Len(appended)].services

(***************************************************************************)
(*                    The claims about the tokenizer                       *)
(***************************************************************************)

\* the content of a literal is closed by the delimiter that follows it: it
\* holds no delimiter outside an escape sequence and no unfinished escape
RECURSIVE Closed(_, _)
Closed(content, delimiter) ==
    IF content = <<>> THEN TRUE
    ELSE IF Head(content) = "\\"
    THEN Len(content) >= 2 /\ Closed(SubSeq(content, 3, Len(content)), delimiter)
    ELSE Head(content) # delimiter /\ Closed(Tail(content), delimiter)

\* the content with each of the six escape sequences replaced by the character
\* it denotes, every other escape sequence and every other character kept
RECURSIVE Unescaped(_)
Unescaped(content) ==
    IF content = <<>> THEN <<>>
    ELSE IF Head(content) = "\\" /\ Len(content) >= 2
    THEN (IF content[2] \in DOMAIN Escapes THEN <<Escapes[content[2]]>>
                                          ELSE <<"\\", content[2]>>)
         \o Unescaped(SubSeq(content, 3, Len(content)))
    ELSE <<Head(content)>> \o Unescaped(Tail(content))

\* C12: the value of the String token of a quoted literal is the literal's
\* content with \n, \r, \t, \\, \" and \' each replaced by the one character it
\* denotes, any other escape kept as the backslash and the escaped character,
\* and every other character copied unchanged.
C12_StringEscapesAreDecoded ==
    (source.kind = "string" /\ Closed(source.content, source.delimiter)
        /\ returned # <<>>)
        => /\ returned[1].ok
           /\ returned[1].value = TokenWith("String", Unescaped(source.content))

\* the part of C12 about the characters outside escape sequences: a content
\* without backslash is the value of the token
StringWithoutEscapeIsCopied ==
    (source.kind = "string" /\ Closed(source.content, source.delimiter)
        /\ returned # <<>> /\ \A i \in DOMAIN source.content : source.content[i] # "\\")
        => returned[1] = [ok |-> TRUE, value |-> TokenWith("String", source.content)]

\* the text of a // comment written as c after the two slashes: a third slash
\* is not part of it
CommentText(c) == IF c # <<>> /\ Head(c) = "/" THEN Tail(c) ELSE c

\* the texts of the comments of lines from..to, joined by new lines
RECURSIVE JoinedComments(_, _, _)
JoinedComments(lines, from, to) ==
    IF from = to THEN CommentText(lines[to].comment[1])
    ELSE CommentText(lines[from].comment[1]) \o <<"\n">>
         \o JoinedComments(lines, from + 1, to)

\* the line the tokenizer has read the comments up to: the line of the token
\* it returned last, or past the last line once it has returned EOF
ReadUpTo ==
    IF returned[Len(returned)].value.kind = "EOF"
    THEN Len(source.lines) + 1
    ELSE current_line(tokenizer.chars)

\* the lines with a // comment that the tokenizer has read
CommentLinesRead ==
    {i \in 1..Len(source.lines) : i < ReadUpTo /\ source.lines[i].comment # <<>>}

\* the first line of the run of consecutive comment lines that ends at line to
RunStart(to) ==
    CHOOSE j \in 1..to :
        /\ \A k \in j..to : source.lines[k].comment # <<>>
        /\ j = 1 \/ source.lines[j - 1].comment = <<>>

LastCommentLine == CHOOSE i \in CommentLinesRead : \A j \in CommentLinesRead : j <= i

\* C14: consecutive // comments with no blank line between them are one pending
\* comment, whose text is their texts joined by a new line and whose lines run
\* from the first comment to the last; a // comment after a line without
\* comment starts a new pending comment.
C14_LineCommentsAreJoined ==
    (source.kind = "lines" /\ returned # <<>>)
        => /\ returned[Len(returned)].ok
           /\ IF CommentLinesRead = {} THEN tokenizer.comment = <<>>
              ELSE tokenizer.comment =
                      << double_slash(
                            JoinedComments(source.lines, RunStart(LastCommentLine),
                                           LastCommentLine),
                            RunStart(LastCommentLine), LastCommentLine) >>

\* C14 witness: the file has a // comment, a line without comment and then
\* comments on two lines or more, which are the pending comment.
C14_Witness ==
    /\ source.kind = "lines"
    /\ returned # <<>>
    /\ tokenizer.comment # <<>>
    /\ tokenizer.comment[1].start_line < tokenizer.comment[1].end_line
    /\ \E i, j \in 1..Len(source.lines) :
          /\ i < j /\ j < tokenizer.comment[1].start_line
          /\ source.lines[i].comment # <<>>
          /\ source.lines[j].comment = <<>>
(***************************************************************************)
(*                     Claims about the file parser                        *)
(***************************************************************************)

\* FileParser::parse has returned / has returned a namespace / an error
Returned == parsed # <<>>
ReturnedOk == parsed # <<>> /\ parsed[1].ok
ReturnedErr == parsed # <<>> /\ ~parsed[1].ok

\* the lines the i-th field of a message of fields takes, and the line its
\* field number is on (the message opens on line 1)
AboveLines(item) ==
    CASE item.above = "none" -> 0 [] item.above = "comment" -> 1 [] item.above = "apart" -> 2
ItemLines(item) == AboveLines(item) + 1 + (IF item.after = <<"\n">> THEN 1 ELSE 0)
RECURSIVE LinesBefore(_, _)
LinesBefore(items, i) ==
    IF i = 1 THEN 1 ELSE LinesBefore(items, i - 1) + ItemLines(items[i - 1])
IdLine(items, i) == LinesBefore(items, i) + AboveLines(items[i]) + 1

\* the message M of the namespace that was returned, and its i-th field
ParsedM == parsed[1].namespace.types[<<"M">>]
ParsedField(i) == ParsedM.fields[<<FieldNames[i]>>]

\* the comment of the line before the i-th field is the one written above it,
\* or the one that trails the field before it
CommentOnLineBefore(items, i) ==
    \/ items[i].above = "comment"
    \/ items[i].above = "none" /\ i > 1 /\ items[i - 1].trailing

\* a comment starts on the line of the field number, after the declaration
CommentOnSameLine(items, i) == items[i].trailing /\ items[i].after # <<"\n">>

\* the comments attached to the message and to its fields, by their first line
AttachedComments(n) ==
    [i \in 0..n |-> IF i = 0 THEN ParsedM.md.comment ELSE ParsedField(i).md.comment]

\* a comment above a field is its leading comment, and a field with no comment
\* above it nor on its line has none
LeadingCommentsAreAttached ==
    (source.kind = "fields" /\ ReturnedOk) =>
        \A i \in 1..Len(source.items) :
            LET L == IdLine(source.items, i)
                md == ParsedField(i).md
            IN  /\ md.line = L
                /\ CommentOnLineBefore(source.items, i) =>
                      md.comment # <<>> /\ md.comment[1].end_line = L - 1
                /\ (~CommentOnLineBefore(source.items, i)
                    /\ ~CommentOnSameLine(source.items, i)) => md.comment = <<>>

\* no comment is attached to two declarations
CommentsAreAttachedOnce ==
    (source.kind = "fields" /\ ReturnedOk) =>
        LET attached == AttachedComments(Len(source.items))
        IN  \A i, j \in DOMAIN attached :
                (i # j /\ attached[i] # <<>> /\ attached[j] # <<>>) =>
                    attached[i][1].start_line # attached[j][1].start_line

\* C13: the metadata of a declaration built at line L has the pending comment
\* that ends on line L-1 as its leading comment; otherwise it has the comment
\* that starts on line L after the declaration; otherwise it has no comment;
\* and a comment is attached to at most one declaration.
C13_CommentsAreAttachedToDeclarations ==
    /\ LeadingCommentsAreAttached
    /\ CommentsAreAttachedOnce
    /\ (source.kind = "fields" /\ ReturnedOk) =>
          \A i \in 1..Len(source.items) :
              (~CommentOnLineBefore(source.items, i)
               /\ CommentOnSameLine(source.items, i)) =>
                  LET md == ParsedField(i).md
                  IN  /\ md.comment # <<>>
                      /\ md.comment[1].start_line = IdLine(source.items, i)
\* the enum E of the namespace that was returned
ParsedE == parsed[1].namespace.types[<<"E">>]

\* a literal starts with the prefix 0x
HasPrefix0x(literal) == Len(literal) >= 2 /\ literal[1] = "0" /\ literal[2] = "x"

\* the i32 a literal stands for: hexadecimal digits after a 0x prefix, a
\* decimal number without it
LiteralValue(literal) ==
    IF HasPrefix0x(literal) THEN from_str_radix(strip_prefix_0x(literal), 16)
    ELSE from_str_radix(literal, 10)

\* the value A of the enum of source is the i32 its literal stands for, or the
\* parse has failed with ParseEnumValue when it stands for none
EnumLiteralIsParsed ==
    LET value == LiteralValue(source.literal)
    IN  IF value.ok
        THEN /\ ReturnedOk
             /\ ParsedE.values = (<<"A">> :> value.value)
        ELSE /\ ReturnedErr
             /\ parsed[1].error.kind = "ParseEnumValue"

\* the literals that do not repeat the prefix are parsed as the claim says
EnumLiteralWithOnePrefixIsParsed ==
    (source.kind = "enum" /\ Returned /\ ~HasPrefix0x(strip_prefix_0x(source.literal))) =>
        EnumLiteralIsParsed

\* C15: an enum value literal is parsed as an i32, hexadecimal after a 0x
\* prefix (0x1 gives 1) and decimal without it; a literal that is not a valid
\* integer within the i32 range makes the parse fail with ParseEnumValue.
C15_EnumValuesAreParsedAsI32 ==
    (source.kind = "enum" /\ Returned) => EnumLiteralIsParsed
\* the first field of source whose number is not a decimal u32, if any
BadIds(items) == {i \in 1..Len(items) : ~parse_u32(items[i].id).ok}
FirstBadId(items) == CHOOSE i \in BadIds(items) : \A j \in BadIds(items) : i <= j

\* the column of the first character of the number of a field: the field
\* starts its line, so it is the place just after what is written before it
IdColumn == Len(<<"t", " ", FieldNames[1], " ", "=", " ">>) + 1

\* the error is reported at the token: on its line, from its first character
\* to the place just after its last one
PositionedAtId(position, items, i) ==
    /\ position.line = IdLine(items, i)
    /\ position.column >= IdColumn
    /\ position.column <= IdColumn + Len(items[i].id)

\* a field number that is not a decimal u32 makes the parse fail with
\* ParseFieldId and no namespace
BadFieldIdFailsTheParse ==
    (source.kind = "fields" /\ Returned /\ BadIds(source.items) # {}) =>
        /\ ReturnedErr
        /\ parsed[1].error.kind = "ParseFieldId"
        /\ "namespace" \notin DOMAIN parsed[1]

\* the position of that error is on the line of the token
BadFieldIdIsReportedOnItsLine ==
    (source.kind = "fields" /\ Returned /\ BadIds(source.items) # {}) =>
        parsed[1].position.line = IdLine(source.items, FirstBadId(source.items))

\* the position of that error is at the token when the token does not end its
\* line
BadFieldIdInsideALineIsReportedAtTheToken ==
    (source.kind = "fields" /\ Returned /\ BadIds(source.items) # {}
     /\ source.items[FirstBadId(source.items)].after # <<"\n">>) =>
        PositionedAtId(parsed[1].position, source.items, FirstBadId(source.items))

\* C16: when the token after `=` in a field declaration is not a decimal
\* integer within the u32 range, the parse fails with ParseFieldId, the
\* position reported with the error is the position of that token, and no
\* namespace is returned.
C16_BadFieldIdIsReportedAtItsToken ==
    (source.kind = "fields" /\ Returned /\ BadIds(source.items) # {}) =>
        /\ BadFieldIdFailsTheParse
        /\ PositionedAtId(parsed[1].position, source.items, FirstBadId(source.items))
\* the package statements of a source of statements, and the path the first
\* of them names
PackagePaths == ("p" :> << <<"p">> >>) @@ ("q" :> << <<"q">>, <<"r">> >>)
Packages(items) == {i \in 1..Len(items) : items[i] \in DOMAIN PackagePaths}
FirstPackage(items) ==
    PackagePaths[items[CHOOSE i \in Packages(items) : \A j \in Packages(items) : i <= j]]

\* C17: within one file the first package statement sets the namespace path;
\* any later package statement makes the parse fail with PackageAlreadySet,
\* and the path set by the first statement is never overwritten.
C17_PackageIsSetOnce ==
    source.kind = "statements" =>
        LET packages == Packages(source.items)
            path == file_parser.namespace.path
        IN  /\ packages = {} => path = <<>>
            /\ packages # {} => path \in {<<>>, FirstPackage(source.items)}
            /\ (Returned /\ Cardinality(packages) = 1) =>
                  /\ ReturnedOk
                  /\ parsed[1].namespace.path = FirstPackage(source.items)
            /\ (Returned /\ Cardinality(packages) > 1) =>
                  /\ ReturnedErr
                  /\ parsed[1].error.kind = "PackageAlreadySet"
                  /\ path = FirstPackage(source.items)

\* a second package statement, naming another package, has failed the parse
\* and the path is the one of the first
C17_Witness ==
    /\ source.kind = "statements"
    /\ Cardinality(Packages(source.items)) > 1
    /\ \E i \in Packages(source.items) : PackagePaths[source.items[i]] # FirstPackage(source.items)
    /\ ReturnedErr
    /\ parsed[1].error.kind = "PackageAlreadySet"
    /\ file_parser.namespace.path = FirstPackage(source.items)
\* a stray `;` at the top level, in a message body and in a service body is
\* skipped: the parse returns the namespace
StraySemiIsSkippedOutsideEnums ==
    (source.kind = "stray" /\ source.context # "enum" /\ Returned) => ReturnedOk

\* C18: a stray `;` where a declaration is expected is skipped without error
\* at the top level of a file, inside a message body, inside an enum body and
\* inside a service body.
C18_StraySemiIsSkipped ==
    (source.kind = "stray" /\ Returned) => ReturnedOk
\* the fields of source whose number is followed by a token that is neither
\* `;` nor `[`
BadAfters(items) == {i \in 1..Len(items) : items[i].after = <<" ", "x">>}

\* a field whose number is followed by `;`, on its line or on the next, or by
\* a bracketed group and `;`, is accepted
FieldEndIsAccepted ==
    (source.kind = "fields" /\ Returned
     /\ BadIds(source.items) = {} /\ BadAfters(source.items) = {}) =>
        /\ ReturnedOk
        /\ DOMAIN ParsedM.fields = {<<FieldNames[i]>> : i \in 1..Len(source.items)}

\* C19: in a field declaration the token after the field number must be `;`
\* or the `[` of a bracketed group of options, which is skipped up to the
\* `;`; any other token at that place makes the parse of the file fail.
C19_FieldNumberIsFollowedBySemiOrBracket ==
    /\ FieldEndIsAccepted
    /\ (source.kind = "fields" /\ Returned /\ BadAfters(source.items) # {}) => ReturnedErr
\* in a source of oneofs: the items that open a oneof, the fields, the fields
\* with a bare type
OneofOpens == {"o", "p"}
FieldItemNames == {"a", "b", "c"}
BareFieldItems == {"a", "b"}

\* the oneofs of the items as they are written: an opening at i, its `}` at j,
\* and no other opening nor `}` between them
OneofBlocks(items) ==
    {b \in (1..Len(items)) \X (1..Len(items)) :
        /\ b[1] < b[2]
        /\ items[b[1]] \in OneofOpens
        /\ items[b[2]] = "}"
        /\ \A k \in (b[1] + 1)..(b[2] - 1) : items[k] \in FieldItemNames}

\* the last oneof of that name
LastBlock(items, n) ==
    CHOOSE b \in OneofBlocks(items) :
        /\ items[b[1]] = n
        /\ \A c \in OneofBlocks(items) : items[c[1]] = n => c[1] <= b[1]

\* the names of the fields with a bare type from i to j, in the order of their
\* declarations
RECURSIVE BareBetween(_, _, _)
BareBetween(items, i, j) ==
    IF i > j THEN <<>>
    ELSE (IF items[i] \in BareFieldItems THEN << <<items[i]>> >> ELSE <<>>)
         \o BareBetween(items, i + 1, j)

\* every `}` of the items closes a oneof, and every oneof is closed
EveryBraceClosesAOneof(items) ==
    /\ \A j \in 1..Len(items) :
          items[j] = "}" => \E b \in OneofBlocks(items) : b[2] = j
    /\ \A i \in 1..Len(items) :
          items[i] \in OneofOpens => \E b \in OneofBlocks(items) : b[1] = i

\* C20: after a message is parsed, each of its oneofs lists, in declaration
\* order, the names of the bare-identifier fields declared between its `{` and
\* its matching `}`; every name listed in a oneof is a key of the field map of
\* the message; and the `}` that closes a oneof does not close the message.
C20_OneofsListTheirFields ==
    (source.kind = "oneof" /\ Returned) =>
        LET items == source.items
        IN  /\ ReturnedOk =>
                  /\ DOMAIN ParsedM.oneofs =
                        {<<items[b[1]]>> : b \in OneofBlocks(items)}
                  /\ \A n \in {items[b[1]] : b \in OneofBlocks(items)} :
                        LET b == LastBlock(items, n)
                            values == ParsedM.oneofs[<<n>>].values
                        IN  /\ values = BareBetween(items, b[1], b[2])
                            /\ \A k \in 1..Len(values) : values[k] \in DOMAIN ParsedM.fields
            /\ EveryBraceClosesAOneof(items) =>
                  /\ ReturnedOk
                  /\ DOMAIN ParsedM.fields =
                        {<<items[k]>> : k \in {l \in 1..Len(items) : items[l] \in FieldItemNames}}

\* a message was parsed with a oneof that lists a field, a field being declared
\* after the `}` of the oneof
C20_Witness ==
    /\ source.kind = "oneof"
    /\ ReturnedOk
    /\ \E b \in OneofBlocks(source.items) :
          /\ Len(ParsedM.oneofs[<<source.items[b[1]]>>].values) > 0
          /\ \E k \in (b[2] + 1)..Len(source.items) :
                /\ source.items[k] \in FieldItemNames
                /\ <<source.items[k]>> \in DOMAIN ParsedM.fields

\* a oneof lists two fields in the order of their declarations
OneofOfTwoFields ==
    /\ source.kind = "oneof"
    /\ ReturnedOk
    /\ \E n \in DOMAIN ParsedM.oneofs :
          ParsedM.oneofs[n].values = << <<"b">>, <<"a">> >>

(***************************************************************************)
(*                   Claims about the relative-to rule                     *)
(***************************************************************************)

\* relative_to has returned
MadeRelative == relative # <<>> /\ relative.suffix # <<>>

\* the segments of the written path that the rule removes, when the first one
\* is the k-th segment of the namespace path: the first, and the following
\* ones for as long as each equals the next segment of the namespace path
Removed(object, dest, k, r) ==
    /\ r \in 1..Len(object)
    /\ \A i \in 1..(r - 1) : k + i <= Len(dest) /\ object[1 + i] = dest[k + i]
    /\ (r < Len(object) /\ k + r <= Len(dest)) => object[r + 1] # dest[k + r]

\* C21: a written path whose first segment is not a segment of the namespace
\* path is returned as it is; when it is, first at position k, the first
\* segment and the following ones that equal the namespace's segments k+1,
\* k+2, ... up to the first mismatch are removed and the rest is returned; so
\* pb.example.Request, example.Request and Request relative to pb.example give
\* Request and example.Request relative to pb.other is unchanged
C21_RelativeToRule ==
    MadeRelative =>
        LET object == relative.object
            dest == relative.dest
            suffix == relative.suffix[1]
        IN  /\ (object = <<>> \/ Position(dest, object[1]) = 0) => suffix = object
            /\ (object # <<>> /\ Position(dest, object[1]) # 0) =>
                   \E r \in 1..Len(object) :
                       /\ Removed(object, dest, Position(dest, object[1]), r)
                       /\ suffix = SubSeq(object, r + 1, Len(object))
            /\ (dest = <<"pb", "example">>
                    /\ object \in {<<"pb", "example", "Request">>,
                                   <<"example", "Request">>, <<"Request">>})
                   => suffix = <<"Request">>
            /\ (dest = <<"pb", "other">> /\ object = <<"example", "Request">>)
                   => suffix = object

\* pb.example.Request has been made relative to pb.example
C21_Witness ==
    /\ MadeRelative
    /\ relative.object = <<"pb", "example", "Request">>
    /\ relative.dest = <<"pb", "example">>
    /\ relative.suffix = << <<"Request">> >>

\* C30: what relative_to leaves of a written path is the written path without
\* its first relative_path_index segments
C30_RelativeToAgreesWithIndex ==
    (MadeRelative /\ relative.index # <<>>) =>
        relative.suffix[1] = Skip(relative.object, relative.index[1])

\* both have been called on a path of which two segments are removed
C30_Witness ==
    /\ MadeRelative
    /\ relative.index = <<2>>
    /\ Len(relative.object) = 3
    /\ relative.suffix[1] = <<relative.object[3]>>

\* a skipped construct that its delimiter does not close before the end
Unclosed == source.kind = "skipped" /\ source.ending # "closed"

\* FileParser::parse returns for every text in which no skipped construct is
\* left unclosed
ParseReturnsWhenClosed == <>(Returned \/ Unclosed)

\* C22: FileParser::parse terminates on every finite input, with a namespace
\* or an error, also when a reserved or extensions statement or the bracketed
\* options of an enum value are not closed before the end of the input
C22_ParseTerminates == <>Returned

\* resolve_path has returned a path
Resolved ==
    relative # <<>> /\ relative.resolved # <<>> /\ relative.resolved[1] # None

\* s ends in the segments of suffix
EndsIn(s, suffix) ==
    /\ Len(suffix) <= Len(s)
    /\ SubSeq(s, Len(s) - Len(suffix) + 1, Len(s)) = suffix

\* the path a written reference is resolved to holds a type of the namespace
\* and is the end of the written path
ResolvedIsTheEndOfTheWrittenPath ==
    Resolved =>
        /\ TypeAt(RelativeTypes, relative.resolved[1])
        /\ EndsIn(relative.object, relative.resolved[1])

\* C23: when a written reference w is resolved against a namespace N to the
\* path r, N holds a type at r and the absolute path N.path followed by r
\* ends in the segments of w (without a leading dot)
C23_ResolvedNameEndsInWrittenName ==
    Resolved =>
        /\ TypeAt(RelativeTypes, relative.resolved[1])
        /\ EndsIn(relative.dest \o relative.resolved[1], no_leading_dot(relative.object))

(***************************************************************************)
(*                 More claims about the resolver                          *)
(***************************************************************************)

\* the dependencies of f as a Vec in the order o
InOrder(f, o) == [i \in DOMAIN o |-> written[o[i]]]

\* C24: the names the references of a file are resolved to do not depend on
\* the order in which its dependencies are searched: any two orders of the
\* same dependencies give the same names
C24_ResolutionIgnoresTheOrderOfDependencies ==
    \A f \in Files :
        status[f] = "resolved" =>
            \A o \in Orders(Dependencies(written, f)) :
                files[f] = normalize_types(written[f], InOrder(f, o))

(***************************************************************************)
(*                   More claims about the driver                          *)
(***************************************************************************)

\* p cannot be read or has a parse error
Broken(p) == disk[p].kind \in {"unreadable", "malformed"}

\* a parse_file(p) call cannot succeed: p is broken, or a file it imports is;
\* an ignored file is never looked at
CannotSucceed(p) ==
    /\ p \notin ignored_files
    /\ \/ Broken(p)
       \/ \E x \in ImportsOf(p) \ ignored_files : Broken(x)

\* the first parse_file call for such a path fails
FirstCallFails ==
    (last.file_name # "" /\ last.file_name \notin last.parsed_files
        /\ CannotSucceed(last.file_name) /\ ImportsOf(last.file_name) \cap last.parsed_files = {})
        => last.result # "Ok"

\* C25: a parse_file(p) call that fails (p cannot be read, has a parse error,
\* or one of its imports fails) does not leave p marked as parsed: a later
\* parse_file(p) call on the same parser fails again, it does not return Ok
C25_FailedFileIsNotMarkedParsed ==
    (last.file_name # "" /\ CannotSucceed(last.file_name)) => last.result # "Ok"

(***************************************************************************)
(*                     More claims about the trie                          *)
(***************************************************************************)

\* node, reached from the root by the nested keys of keys, and every node
\* below it have the keys that lead to them as their path
RECURSIVE NodesHaveTheirPath(_, _)
NodesHaveTheirPath(node, keys) ==
    /\ node.path = keys
    /\ \A k \in DOMAIN node.nested : NodesHaveTheirPath(node.nested[k], Append(keys, k))

\* the nodes that append_child made are all there is below the root, and
\* each has the empty path of Namespace::empty
RECURSIVE NodesHaveNoPath(_)
NodesHaveNoPath(node) ==
    /\ node.path = <<>>
    /\ \A k \in DOMAIN node.nested : NodesHaveNoPath(node.nested[k])

\* after append_child calls for fragments only, no node has a path
FragmentNodesHaveNoPath ==
    (\A i \in 1..Len(appended) : appended[i] \in Fragments) => NodesHaveNoPath(root)

\* C26: after any sequence of append_child calls, every namespace reached
\* from the root by the nested keys s1, ..., sn has the path [s1, ..., sn]
C26_NodesHaveTheirPath == NodesHaveTheirPath(root, <<>>)

(***************************************************************************)
(*                   More claims about the tokenizer                       *)
(***************************************************************************)

\* the tokenizer has returned EOF or an error
ReadToTheEnd ==
    /\ returned # <<>>
    /\ \/ ~returned[Len(returned)].ok
       \/ returned[Len(returned)].value.kind = "EOF"

\* the place of the `*` of the first `*/` after the opening `/*` of text
FirstClose(text) ==
    CHOOSE i \in 3..(Len(text) - 1) :
        /\ text[i] = "*" /\ text[i + 1] = "/"
        /\ \A j \in 3..(i - 1) : ~(text[j] = "*" /\ text[j + 1] = "/")

\* what follows the first `*/` of text
AfterFirstClose(text) == SubSeq(text, FirstClose(text) + 2, Len(text))

\* what a tokenizer returns, call after call, up to EOF or an error
RECURSIVE TokensOf(_)
TokensOf(self) ==
    LET r == next(self)
        result == [ok |-> r.result.ok, value |-> r.result.value]
    IN  IF ~result.ok \/ result.value.kind = "EOF" THEN <<result>>
        ELSE <<result>> \o TokensOf(r.self)

\* the block comment of the text ends at its first `*/`: what follows is
\* tokenized as it would be on its own, and when no other comment follows,
\* the pending comment is the block comment
EndsAtFirstClose ==
    LET rest == AfterFirstClose(TextOf(source))
    IN  /\ returned = TokensOf(Tokenizer(rest))
        /\ (\A i \in 1..Len(rest) : rest[i] # "/") =>
               /\ tokenizer.comment # <<>>
               /\ tokenizer.comment[1].kind = "StarSlash"

\* the text opens with the empty comment
OpensWithEmptyComment == SubSeq(TextOf(source), 1, 4) = <<"/", "*", "*", "/">>

\* a block comment whose opening is not followed by `*/` at once ends at the
\* first `*/`
BlockCommentWithABodyEndsAtFirstClose ==
    (source.kind = "block" /\ ReadToTheEnd /\ ~OpensWithEmptyComment) => EndsAtFirstClose

\* C27: a block comment ends at the first `*/` that follows its opening `/*`,
\* the empty comment `/**/` included: the comment becomes the pending comment
\* and every character after that `*/` is tokenized as usual
C27_BlockCommentEndsAtFirstClose ==
    (source.kind = "block" /\ ReadToTheEnd) => EndsAtFirstClose

(***************************************************************************)
(*                 Claims about IteratorWithPosition                       *)
(***************************************************************************)

\* a character was taken from the text and put back as the peeked item
PeekedChar == iterator.peeked # <<>> /\ iterator.peeked[1] # <<>>

\* the number of characters consumed: a peeked character is not
Consumed == IF PeekedChar THEN iterator.taken - 1 ELSE iterator.taken

\* current_position counts a peeked character as not read as far as the line
\* and the offset go, and when the character is not a newline, as far as the
\* column goes
PeekedCharIsNotReadButForTheColumn ==
    LET position == current_position(iterator)
    IN  /\ position.line >= 1 /\ position.column >= 1
        /\ position.offset = Consumed
        /\ PeekedChar => position.line = before.line
        /\ (PeekedChar /\ iterator.peeked[1][1] # "\n") => position = before

\* C28: current_position() treats a peeked character as not read: after any
\* sequence of next and next_if calls it returns the line, column and offset
\* the iterator had just before that character was consumed, for every
\* character, a newline included; line and column are never below 1 and the
\* offset is the number of characters consumed
C28_PeekedCharIsNotRead ==
    LET position == current_position(iterator)
    IN  /\ position.line >= 1 /\ position.column >= 1
        /\ position.offset = Consumed
        /\ PeekedChar => position = before

(***************************************************************************)
(*                 The one-token look-ahead of FileParser                  *)
(***************************************************************************)

\* the results the parser's functions were handed, followed by the result
\* that is peeked and not handed yet
Sighted == file_parser.seen \o file_parser.peeked

\* the tokens of the text, as the tokenizer gives them when it is read alone
\* from the start up to its EOF or its first error
TokensOfTheText == TokensOf(Tokenizer(FileText(source)))

\* metadata() was called with a token peeked already
AssertionFailed ==
    parsed # <<>> /\ ~parsed[1].ok /\ parsed[1].error.kind = "AssertionFailed"

\* C29: in FileParser the token peeked by metadata() is consumed by the very
\* next token read: between two statements no token is peeked, metadata() is
\* never called with a token peeked (its assertion never fails), the tokenizer
\* is never read by skip_until_token past a peeked token, and the parser is
\* handed the tokens of the text in order, none skipped and none repeated
C29_PeekedTokenIsTheNextRead ==
    /\ file_parser.peeked = <<>>
    /\ ~AssertionFailed
    /\ ~file_parser.overtaken
    /\ Len(Sighted) <= Len(TokensOfTheText)
    /\ Sighted = SubSeq(TokensOfTheText, 1, Len(Sighted))

\* an enum whose value has bracketed options was parsed to its end: metadata()
\* peeked the `{` after the enum's name, skip_until_token read the tokenizer
\* up to the `]`, and every token of the text was handed to the parser
C29_Witness ==
    /\ ReturnedOk
    /\ source.kind = "skipped"
    /\ source.construct = "enum_value_options"
    /\ source.ending = "closed"
    /\ file_parser.seen = TokensOfTheText

====
